---- MODULE Spec2Model ----
(***************************************************************************)
(* Model of the iterate-generate-build-test loop of the Orchestrator       *)
(* (src/src/agents/orchestrator.py) together with the Error Parser         *)
(* (src/src/utils/error_parser.py) it calls.                               *)
(*                                                                         *)
(* A text (error message, execution log) is a sequence of lines; every     *)
(* decision the Error Parser takes is a pattern search over the text, and  *)
(* LinePatterns records which of its patterns each line matches.           *)
(* One action is one stage of an iteration: the call of the agent and the  *)
(* handling of its result up to the next call, `continue` or `break`.      *)
(***************************************************************************)
EXTENDS Integers, Sequences, FiniteSets, TLC

\* Largest max_iterations explored.
MaxIter == 3

Languages == {"python", "java"}

\* ---------------------------------------------------------------- schemas

\* AgentStatus.  A stage is RUNNING only between the assignment ahead of the
\* agent's call and the handling of its result, inside one action.
PENDING == "pending"
RUNNING == "running"
SUCCESS == "success"
FAILED == "failed"

\* ErrorType; NoErrorType is the None of Optional[ErrorType]
SYNTAX == "syntax"
BUILD == "build"
RUNTIME == "runtime"
LOGIC == "logic"
MISSING_CREDENTIALS == "missing_credentials"
NoErrorType == "None"

\* Optional[str] = None
NoneStr == "None"

\* Optional[BuildResult] = None and Optional[TestResult] = None
NoBuildResult == [status |-> "None", errors |-> <<>>, suggested_fixes |-> <<>>]
NoTestResult == [status |-> "None", issues_found |-> <<>>, execution_logs |-> <<>>]

\* IterationLog(iteration_number=n) with the defaults of the schema
IterationLog(n) ==
    [iteration_number |-> n,
     code_gen_status |-> PENDING,
     build_status |-> PENDING,
     test_status |-> PENDING,
     generated_code |-> NoneStr,
     build_result |-> NoBuildResult,
     test_result |-> NoTestResult,
     error_type |-> NoErrorType,
     error_message |-> NoneStr]

\* Optional[CodeArtifact] = None
NoCodeArtifact == [code |-> "", filename |-> "", dependencies |-> <<>>]

CodeArtifact(code, filename, dependencies) ==
    [code |-> code, filename |-> filename, dependencies |-> dependencies]

\* GenerationSession / ProjectSession with the defaults of the schema
NewSession(max_iterations) ==
    [session_id |-> "a1b2c3d4",
     created_at |-> 1,
     status |-> PENDING,
     current_iteration |-> 0,
     max_iterations |-> max_iterations,
     iterations |-> <<>>,
     final_code |-> NoCodeArtifact,
     project_template |-> "",
     project_name |-> "",
     files |-> <<>>,
     all_dependencies |-> <<>>,
     missing_credentials |-> <<>>,
     total_execution_time_set |-> FALSE,
     success |-> FALSE]

\* ----------------------------------------------------------- Error Parser

\* A text is a sequence of lines.  LinePatterns gives, for each line the
\* model uses, the patterns of the Error Parser the line matches:
\*   auth            MISSING_API_KEY
\*   syntaxerror     "syntaxerror" / "indentationerror" in the lowered text
\*   modulenotfound  "modulenotfounderror" / "importerror"
\*   re_import       PYTHON_IMPORT_ERROR
\*   re_name         PYTHON_NAME_ERROR
\*   dbconn          DB_CONNECTION_ERROR
\*   apierr          API_ERROR
\*   nameerror       "nameerror" / "typeerror" / "valueerror"
\*   javac           "error:" and ".java:"
\*   re_javac        JAVA_COMPILE_ERROR
\*   classnotfound   "class not found" / "classnotfoundexception"
\*   pkgmissing      "package does not exist"
\*   re_package      JAVA_PACKAGE_ERROR
\*   symbol          "cannot find symbol"
\*   re_symbol       JAVA_SYMBOL_ERROR
\*   nosuchmethod    "nosuchmethoderror" / "nosuchfielderror"
LinePatterns(line) ==
    CASE line = "ModuleNotFoundError: No module named 'requestz'"
            -> {"modulenotfound", "re_import"}
      [] line = "NameError: name 'x' is not defined"
            -> {"nameerror", "re_name"}
      [] line = "HTTP Error 401: Invalid API key"
            -> {"auth", "apierr"}
      [] line = "Failed to install dependencies: ERROR: HTTP error 407: Proxy Authentication Required"
            -> {"auth", "apierr"}
      [] line = "[ERROR] Failed to transfer artifact: authentication failed for repository"
            -> {"auth"}
      [] line = "Exception in thread main java.lang.ClassNotFoundException: Helper"
            -> {"classnotfound", "ClassNotFoundException"}
      [] OTHER -> {}

\* re.search(pattern, text) / "pattern" in text
Matches(text, pattern) ==
    \E i \in 1..Len(text) : pattern \in LinePatterns(text[i])

\* Patterns of the generated code the credential detector looks for:
\*   placeholder  api[_]?key\s*=\s*['"]YOUR_ | TODO | REPLACE
\*   endpoint     api.openweathermap.org / api.time.io
\*   api_key      "api_key" / "apikey" in the lowered code
\* and the patterns the Build Agent and the Testing Agent look for:
\*   public_class  public\s+class\s+(\w+)
\*   syntax_error  ast.parse(code) raises SyntaxError
CodePatterns(code) ==
    CASE code = "api_key = 'YOUR_API_KEY_HERE'" -> {"placeholder", "api_key"}
      [] code = "requests.get('https://api.openweathermap.org/data/2.5/weather')"
            -> {"endpoint"}
      [] code = "def f(:" -> {"syntax_error"}
      [] code = "public class Main {}" -> {"public_class"}
      [] code = "public class Main { String api_key = 'YOUR_API_KEY_HERE'; }"
            -> {"placeholder", "api_key", "public_class"}
      [] OTHER -> {}

DetermineErrorType(error_message, language) ==
    IF Matches(error_message, "auth") THEN MISSING_CREDENTIALS
    ELSE IF language = "python" THEN
        IF Matches(error_message, "syntaxerror") THEN SYNTAX
        ELSE IF Matches(error_message, "modulenotfound") THEN BUILD
        ELSE IF Matches(error_message, "dbconn") THEN RUNTIME
        ELSE IF Matches(error_message, "apierr") THEN RUNTIME
        ELSE IF Matches(error_message, "nameerror") THEN RUNTIME
        ELSE LOGIC
    ELSE IF language = "java" THEN
        IF Matches(error_message, "javac") THEN SYNTAX
        ELSE IF Matches(error_message, "classnotfound") THEN RUNTIME
        ELSE IF Matches(error_message, "pkgmissing") THEN BUILD
        ELSE IF Matches(error_message, "symbol") THEN SYNTAX
        ELSE IF Matches(error_message, "nosuchmethod") THEN RUNTIME
        ELSE LOGIC
    ELSE LOGIC

ExtractRootCause(error_message, error_type, language) ==
    IF error_type = MISSING_CREDENTIALS
    THEN "Required API keys or credentials are missing"
    ELSE IF language = "python" /\ Matches(error_message, "re_import")
    THEN "Missing Python package: requestz"
    ELSE IF language = "python" /\ Matches(error_message, "re_name")
    THEN "Undefined variable or function: x"
    ELSE IF language = "java" /\ Matches(error_message, "re_javac")
    THEN "Compilation error"
    ELSE IF language = "java" /\ Matches(error_message, "re_package")
    THEN "Missing dependency: package not found"
    ELSE IF language = "java" /\ Matches(error_message, "re_symbol")
    THEN "Undefined symbol"
    ELSE IF language = "java" /\ Matches(error_message, "ClassNotFoundException")
    THEN "Class not found at runtime: Helper"
    ELSE LET lines == SelectSeq(error_message, LAMBDA l : l # "")
         IN  IF lines # <<>> THEN lines[1] ELSE ""

DetectMissingCredentials(error_message, code) ==
    (IF Matches(error_message, "auth")
     THEN <<"API Key or Authentication Token">> ELSE <<>>)
    \o (IF "placeholder" \in CodePatterns(code)
        THEN <<"API Key (found placeholder in code)">> ELSE <<>>)
    \o (IF "endpoint" \in CodePatterns(code) /\ "api_key" \notin CodePatterns(code)
        THEN <<"API Key for external service">> ELSE <<>>)

ParseError(error_message, language, code) ==
    LET error_type == DetermineErrorType(error_message, language) IN
    [error_type |-> error_type,
     root_cause |-> ExtractRootCause(error_message, error_type, language),
     missing_credentials |-> DetectMissingCredentials(error_message, code),
     raw_error |-> error_message]

\* The retry context: ERROR_CONTEXT_TEMPLATE filled with the parsed error and
\* the iteration it was synthesized in.  EmptyContext is the empty string.
EmptyContext == [error_type |-> "", root_cause |-> "", iteration |-> 0]

FormatErrorContext(parsed_error, iteration, max_iterations) ==
    [error_type |-> parsed_error.error_type,
     root_cause |-> parsed_error.root_cause,
     iteration |-> iteration]

\* ------------------------------------------------ what the agents return

\* "\n".join(lines)
RECURSIVE JoinLines(_)
JoinLines(lines) ==
    IF lines = <<>> THEN ""
    ELSE IF Len(lines) = 1 THEN lines[1]
    ELSE lines[1] \o "\n" \o JoinLines(Tail(lines))

\* A generated program: its source and the dependencies extracted from it.
Programs(language) ==
    IF language = "python"
    THEN {[code |-> "print('hello')", dependencies |-> <<>>],
          [code |-> "api_key = 'YOUR_API_KEY_HERE'", dependencies |-> <<"requests">>]}
    ELSE {[code |-> "public class Main {}", dependencies |-> <<>>],
          [code |-> "api_key = 'YOUR_API_KEY_HERE'", dependencies |-> <<"gson">>]}

SourceFileName(language) ==
    IF language = "python" THEN "main.py" ELSE "Main.java"

\* CodeGeneratorAgent.generate_code: the exception handler's result, a
\* response without any file, a first file with an empty body, a program.
GenerateCodeResults(language) ==
    {[success |-> FALSE, error |-> "LLM request failed: rate limit exceeded",
      files |-> <<>>, dependencies |-> <<>>]}
    \cup {[success |-> TRUE, error |-> NoneStr, files |-> fs, dependencies |-> <<>>] :
            fs \in {<<>>, <<[filename |-> SourceFileName(language), code |-> ""]>>}}
    \cup {[success |-> TRUE, error |-> NoneStr,
           files |-> <<[filename |-> SourceFileName(language), code |-> p.code]>>,
           dependencies |-> p.dependencies] : p \in Programs(language)}

\* CodeGeneratorAgent.generate_project_code: a failure carries no files.
GenerateProjectResults(language) ==
    {[success |-> FALSE, error |-> e, files |-> <<>>, dependencies |-> <<>>] :
        e \in {"LLM request failed: rate limit exceeded",
               "Failed to parse multi-file response from LLM"}}
    \cup {[success |-> TRUE, error |-> NoneStr,
           files |-> <<[filename |-> SourceFileName(language), code |-> p.code]>>,
           dependencies |-> p.dependencies] : p \in Programs(language)}

BuildSuccess == [status |-> "success", errors |-> <<>>, suggested_fixes |-> <<>>]

BuildErrorTexts(language) ==
    IF language = "python"
    THEN {<<"Syntax error at line 1: invalid syntax">>,
          <<"Failed to install dependencies: ERROR: No matching distribution found for requestz">>,
          <<"Failed to install dependencies: ERROR: HTTP error 407: Proxy Authentication Required">>}
    ELSE {<<"Maven (mvn) not found in system PATH or common installation locations">>,
          <<"Main.java:3 - ';' expected">>,
          <<"[ERROR] Failed to transfer artifact: authentication failed for repository">>}

\* BuildAgent.build_project: every path, the exception
\* handler included, returns a BuildResult.
BuildResults(language) ==
    {BuildSuccess}
    \cup {[status |-> "error", errors |-> e, suggested_fixes |-> <<>>] :
            e \in BuildErrorTexts(language)}

\* TestingAgent.test_project: every path, the exception
\* handler included, returns a TestResult.
TestResults(language) ==
    {[status |-> "pass", issues_found |-> <<>>, execution_logs |-> <<"hello">>],
     [status |-> "fail", issues_found |-> <<"Output does not meet the requirements">>,
      execution_logs |-> <<"hello">>],
     [status |-> "fail", issues_found |-> <<"HTTP Error 401: Invalid API key">>,
      execution_logs |-> <<"STDOUT:", "STDERR:", "HTTP Error 401: Invalid API key">>]}
    \cup (IF language = "python"
          THEN {[status |-> "fail",
                 issues_found |-> <<"ModuleNotFoundError: No module named 'requestz'">>,
                 execution_logs |-> <<"STDOUT:", "STDERR:",
                                      "ModuleNotFoundError: No module named 'requestz'">>]}
          ELSE {[status |-> "fail",
                 issues_found |-> <<"Java code must have a public class">>,
                 execution_logs |-> <<>>]})

\* ProjectValidatorAgent.validate_project
ValidationResults(language) ==
    {[success |-> TRUE, errors |-> <<>>],
     [success |-> FALSE,
      errors |-> IF language = "java"
                 THEN <<"Java file /src/main/java/com/x/Main.java package 'com.y' doesn't match path">>
                 ELSE <<"Validation error: expected string or bytes-like object">>]}

\* ProjectScaffoldAgent.scaffold_project
ScaffoldResults ==
    {[success |-> TRUE, project_root |-> "outputs/generated_code/demo", error |-> NoneStr],
     [success |-> FALSE, project_root |-> "", error |-> "Template 'fastapi' not found"],
     [success |-> FALSE, project_root |-> "", error |-> "[Errno 13] Permission denied"]}

\* all sequences over S of length at most n
SeqsUpTo(S, n) == UNION {[1..k -> S] : k \in 0..n}

\* ------------------------------------------------------- Response Splitter
\* An LLM response is a text of lines.  The splitter's regular expressions
\* are searches for lines of three kinds: FILE markers, opening fences
\* (``` with an optional language tag) and the bare closing fence.

\* Longest LLM response, in lines.
MaxResponseLines == 4

\* The line ``` and the line ```python.  A string of this module cannot hold
\* a backquote: the three backquotes are written <fence>.
Fence == "<fence>"
FenceOf(language) == "<fence>" \o language

ResponseLines ==
    {"# FILE: src/main.py", "# FILE: src/util.py", "// FILE: src/main.py",
     FenceOf("python"), Fence, "x = 1", "y = 2"}

\* lines of an answer that holds Java files
JavaResponseLines ==
    {"# FILE: src/main/java/com/x/A.java", "// FILE: src/main/java/com/x/A.java",
     FenceOf("java"), Fence, "import javax.persistence.Entity;", "public class A {", "}"}

\* generate_code: (?m)^(?:#|//)\s*FILE:\s*(.+)$ ; group(1).strip()
MarkerPathOfCode(line) ==
    CASE line = "# FILE: src/main.py" -> "src/main.py"
      [] line = "# FILE: src/util.py" -> "src/util.py"
      [] line = "// FILE: src/main.py" -> "src/main.py"
      [] line = "# FILE: src/main/java/com/x/A.java" -> "src/main/java/com/x/A.java"
      [] line = "// FILE: src/main/java/com/x/A.java" -> "src/main/java/com/x/A.java"
      [] OTHER -> NoneStr

\* generate_project_code: (?m)^#\s*FILE:\s*(.+)$ ; group(1).strip()
MarkerPathOfProject(line) ==
    CASE line = "# FILE: src/main.py" -> "src/main.py"
      [] line = "# FILE: src/util.py" -> "src/util.py"
      [] line = "# FILE: src/main/java/com/x/A.java" -> "src/main/java/com/x/A.java"
      [] OTHER -> NoneStr

\* filename.endswith(".java")
IsJavaFile(filename) ==
    filename \in {"Main.java", "A.java", "src/main/java/Main.java",
                  "src/main/java/com/x/A.java", "GeneratedClass_<timestamp>.java",
                  "generated_1.java"}

\* the packages _convert_javax_to_jakarta rewrites
conversions ==
    {"javax.persistence", "javax.validation", "javax.servlet", "javax.transaction",
     "javax.ejb", "javax.annotation", "javax.inject", "javax.ws.rs", "javax.jms",
     "javax.mail"}

\* import lines: the package a line imports from, up to the boundary the
\* pattern \bimport\s+<package>\b stops at, and what follows it
ImportLines ==
    {[line |-> "import javax.persistence.Entity;", package |-> "javax.persistence",
      rest |-> ".Entity;"],
     [line |-> "import javax.annotation.PostConstruct;", package |-> "javax.annotation",
      rest |-> ".PostConstruct;"],
     [line |-> "import javax.annotation.processing.Processor;", package |-> "javax.annotation",
      rest |-> ".processing.Processor;"],
     [line |-> "import javax.transaction.Transactional;", package |-> "javax.transaction",
      rest |-> ".Transactional;"],
     [line |-> "import javax.transaction.xa.XAResource;", package |-> "javax.transaction",
      rest |-> ".xa.XAResource;"],
     [line |-> "import javax.sql.DataSource;", package |-> "javax.sql",
      rest |-> ".DataSource;"],
     [line |-> "import javax.naming.InitialContext;", package |-> "javax.naming",
      rest |-> ".InitialContext;"],
     [line |-> "import java.util.List;", package |-> "java.util", rest |-> ".List;"]}

\* "javax.<x>" becomes "jakarta.<x>"
JakartaOf(package) == "jakarta" \o
    (CASE package = "javax.persistence" -> ".persistence"
       [] package = "javax.validation" -> ".validation"
       [] package = "javax.servlet" -> ".servlet"
       [] package = "javax.transaction" -> ".transaction"
       [] package = "javax.ejb" -> ".ejb"
       [] package = "javax.annotation" -> ".annotation"
       [] package = "javax.inject" -> ".inject"
       [] package = "javax.ws.rs" -> ".ws.rs"
       [] package = "javax.jms" -> ".jms"
       [] OTHER -> ".mail")

\* re.sub(pattern, f"import {jakarta_pkg}", code) on one line
ConvertLine(line) ==
    IF \E imp \in ImportLines : imp.line = line /\ imp.package \in conversions
    THEN LET imp == CHOOSE imp \in ImportLines : imp.line = line
         IN  "import " \o JakartaOf(imp.package) \o imp.rest
    ELSE line

\* CodeGeneratorAgent._convert_javax_to_jakarta
ConvertJavaxToJakarta(code) == [i \in 1..Len(code) |-> ConvertLine(code[i])]

\* content.count("{") and content.count("}")
RECURSIVE CountBraces(_, _)
CountBraces(content, brace) ==
    IF content = <<>> THEN 0
    ELSE (IF brace = "{" /\ Head(content) = "public class A {" THEN 1
          ELSE IF brace = "}" /\ Head(content) = "}" THEN 1
          ELSE 0) + CountBraces(Tail(content), brace)

\* "Fix 2": the missing closing braces are added, one to a line
AddMissingBraces(content) ==
    LET open_braces == CountBraces(content, "{")
        close_braces == CountBraces(content, "}")
    IN  IF open_braces > close_braces
        THEN content \o [k \in 1..(open_braces - close_braces) |-> "}"]
        ELSE content

\* the fixes of generate_project_code for a Java file
JavaFixes(content, filename, language) ==
    IF IsJavaFile(filename) /\ language = "java"
    THEN AddMissingBraces(ConvertJavaxToJakarta(content))
    ELSE content

\* ```[\w]* : a fence with or without a language tag
OpensFence(line) == line \in {Fence} \cup {FenceOf(l) : l \in Languages}

\* \n```$ : the bare fence
ClosesFence(line) == line = Fence

Min(S) == CHOOSE m \in S : \A n \in S : m <= n

\* the body of a fenced block opened at line i: (.+?)``` needs one character
\* at least, so the block runs to the first fence at line i + 2 or later
FenceEnds(text, i) == {j \in (i + 2)..Len(text) : OpensFence(text[j])}

BlockAt(text, i) == SubSeq(text, i + 1, Min(FenceEnds(text, i)) - 1)

\* _extract_code_from_markdown: the first block fenced with the language
\* tag, else the first block with a bare fence, else the text as it is
ExtractCodeFromMarkdown(text, language) ==
    LET tagged == {i \in 1..Len(text) :
                      text[i] = FenceOf(language) /\ FenceEnds(text, i) # {}}
        bare == {i \in 1..Len(text) :
                      text[i] = Fence /\ FenceEnds(text, i) # {}}
    IN  IF tagged # {} THEN BlockAt(text, Min(tagged))
        ELSE IF bare # {} THEN BlockAt(text, Min(bare))
        ELSE text

\* body of the marker at line i: up to the next marker or the end of the text
MarkerBody(text, markers, i) ==
    LET later == {j \in markers : j > i}
        end == IF later = {} THEN Len(text) + 1 ELSE Min(later)
    IN  SubSeq(text, i + 1, end - 1)

\* re.sub(r"^```[\w]*\n", "", content): a leading fence line and its newline
StripOpeningFence(content) ==
    IF Len(content) >= 2 /\ OpensFence(content[1]) THEN Tail(content) ELSE content

\* re.sub(r"\n```$", "", content)
StripClosingFence(content) ==
    IF Len(content) >= 2 /\ ClosesFence(content[Len(content)])
    THEN SubSeq(content, 1, Len(content) - 1) ELSE content

\* generate_code strips the fences only when the body starts and ends with one
NormalizeFences(content) ==
    IF content # <<>> /\ OpensFence(content[1]) /\ ClosesFence(content[Len(content)])
    THEN StripClosingFence(StripOpeningFence(content))
    ELSE content

\* the members of a set of line numbers in increasing order
RECURSIVE Ordered(_)
Ordered(S) == IF S = {} THEN <<>> ELSE <<Min(S)>> \o Ordered(S \ {Min(S)})

\* CodeGeneratorAgent._generate_filename
GenerateFilename(language, code) ==
    IF language = "python" THEN "generated_script_<timestamp>.py"
    ELSE IF \E i \in 1..Len(code) : code[i] = "public class A {" THEN "A.java"
    ELSE "GeneratedClass_<timestamp>.java"

\* generate_code, splitting the generated text: every marker appends a file
SplitCode(response, language) ==
    LET generated_code == ExtractCodeFromMarkdown(response, language)
        markers == {i \in 1..Len(generated_code) :
                       MarkerPathOfCode(generated_code[i]) # NoneStr}
        order == Ordered(markers)
    IN  IF markers # {}
        THEN [k \in 1..Len(order) |->
                [filename |-> MarkerPathOfCode(generated_code[order[k]]),
                 code |-> NormalizeFences(MarkerBody(generated_code, markers, order[k]))]]
        \* the fenced-block pattern of generate_code, ```(?:\\w+)?\\n(.+?)```
        \* in a raw string, asks for a backslash after the fence: no line of
        \* ResponseLines has one, the whole text is the single file
        ELSE IF generated_code # <<>>
        THEN <<[filename |-> GenerateFilename(language, generated_code),
                code |-> generated_code]>>
        ELSE <<>>

\* seen_files[filename] = {...}: the entry of a known filename is replaced in
\* place, a new filename is appended
PutFile(files, file) ==
    IF \E k \in 1..Len(files) : files[k].filename = file.filename
    THEN [k \in 1..Len(files) |->
            IF files[k].filename = file.filename THEN file ELSE files[k]]
    ELSE Append(files, file)

\* the marker loop of generate_project_code: `if content:` skips a marker
\* whose body is empty once the fences are stripped
RECURSIVE SeenFiles(_, _, _, _)
SeenFiles(text, markers, order, language) ==
    IF order = <<>> THEN <<>>
    ELSE LET i == order[Len(order)]
             content == StripClosingFence(StripOpeningFence(MarkerBody(text, markers, i)))
             filename == MarkerPathOfProject(text[i])
             seen_files == SeenFiles(text, markers, SubSeq(order, 1, Len(order) - 1), language)
         IN  IF content # <<>>
             THEN PutFile(seen_files,
                          [filename |-> filename,
                           code |-> JavaFixes(content, filename, language)])
             ELSE seen_files

\* file_list: the paths of the template structure
TemplateFiles(language) ==
    IF language = "python" THEN <<"src/main.py">> ELSE <<"src/main/java/com/x/A.java">>

\* re.findall(r"```(?:\w+)?\n(.+?)```", ...) from line p on, block number idx
RECURSIVE FencedBlocks(_, _, _, _)
FencedBlocks(text, p, idx, language) ==
    LET opened == {i \in p..Len(text) : OpensFence(text[i]) /\ FenceEnds(text, i) # {}}
    IN  IF opened = {} THEN <<>>
        ELSE LET i == Min(opened)
                 block == BlockAt(text, i)
                 filename == IF idx < Len(TemplateFiles(language))
                             THEN TemplateFiles(language)[idx + 1]
                             ELSE "generated_" \o ToString(idx) \o "." \o language
             IN  <<[filename |-> filename, code |-> block]>>
                 \o FencedBlocks(text, i + Len(block) + 2, idx + 1, language)

\* generate_project_code, splitting the response
SplitProject(response, language) ==
    LET markers == {i \in 1..Len(response) : MarkerPathOfProject(response[i]) # NoneStr}
    IN  IF markers # {}
        THEN SeenFiles(response, markers, Ordered(markers), language)
        ELSE FencedBlocks(response, 1, 0, language)

\* ---------------------------------------------------- Dependency Extractor
\* A source text is a sequence of lines; the extractor's regular expressions
\* pick a name out of an import line and the entries out of a REQUIRES line.

\* Longest source text, in lines, handed to the Dependency Extractor.
MaxSourceLines == 3

SourceLines ==
    {"import os", "import requests", "import lib", "import scipy.stats",
     "from utils import helper", "from bs4 import BeautifulSoup",
     "# REQUIRES: os.path, numpy", "# REQUIRES: requests==2.31.0, json",
     "import com.google.gson.Gson;", "// REQUIRES: org.json:json:20231013"}

\* re.findall(r"^import\s+(\w+)", code, re.MULTILINE)
ImportedName(line) ==
    CASE line = "import os" -> "os"
      [] line = "import requests" -> "requests"
      [] line = "import lib" -> "lib"
      [] line = "import scipy.stats" -> "scipy"
      [] line = "import com.google.gson.Gson;" -> "com"
      [] OTHER -> NoneStr

\* re.findall(r"^from\s+(\w+)", code, re.MULTILINE)
FromImportedName(line) ==
    CASE line = "from utils import helper" -> "utils"
      [] line = "from bs4 import BeautifulSoup" -> "bs4"
      [] OTHER -> NoneStr

\* re.search(r"#\s*REQUIRES:\s*(.+)", code)
IsRequires(line) ==
    line \in {"# REQUIRES: os.path, numpy", "# REQUIRES: requests==2.31.0, json"}

\* [d.strip() for d in group(1).split(",")], without the empty and the
\* comment-like entries
RequiredNames(line) ==
    CASE line = "# REQUIRES: os.path, numpy" -> <<"os.path", "numpy">>
      [] line = "# REQUIRES: requests==2.31.0, json" -> <<"requests==2.31.0", "json">>
      [] OTHER -> <<>>

\* re.findall(r"^import\s+([\w.]+);", code, re.MULTILINE)
JavaImport(line) ==
    CASE line = "import com.google.gson.Gson;" -> "com.google.gson.Gson"
      [] OTHER -> NoneStr

\* re.search(r"//\s*REQUIRES:\s*(.+)", code), the entries with three parts
JavaRequired(line) ==
    CASE line = "// REQUIRES: org.json:json:20231013"
            -> <<[groupId |-> "org.json", artifactId |-> "json", version |-> "20231013"]>>
      [] OTHER -> <<>>

IsJavaRequires(line) == line = "// REQUIRES: org.json:json:20231013"

builtin_modules ==
    {"os", "sys", "time", "datetime", "json", "csv", "re", "collections",
     "itertools", "functools", "math", "random", "logging", "typing",
     "unittest", "pathlib", "io", "subprocess", "tempfile", "shutil", "copy",
     "pickle", "threading", "multiprocessing", "argparse", "configparser",
     "email", "urllib", "http", "socket", "ssl", "asyncio", "hashlib", "hmac",
     "secrets", "uuid", "enum", "dataclasses", "abc", "sqlite3", "dbm", "shelve"}

project_modules ==
    {"src", "app", "tests", "test", "config", "utils", "models", "schemas",
     "database", "api", "core", "services", "controllers", "views", "main"}

\* the project-internal names of the Build Agent
project_internals ==
    {"src", "app", "tests", "test", "config", "utils", "models", "schemas",
     "database", "api", "core", "services", "controllers", "views", "main",
     "lib", "common"}

\* "==" in d or ">=" in d or "<=" in d
HasVersionSpec(d) == d = "requests==2.31.0"

\* name.split(".")[0]
TopSegment(name) ==
    CASE name = "os.path" -> "os"
      [] name = "scipy.stats" -> "scipy"
      [] OTHER -> name

\* module_to_pip.get(top, top)
ModuleToPip(top) ==
    CASE top = "bs4" -> "beautifulsoup4"
      [] top = "PIL" -> "Pillow"
      [] top = "sklearn" -> "scikit-learn"
      [] top = "cv2" -> "opencv-python"
      [] top = "yaml" -> "PyYAML"
      [] top = "np" -> "numpy"
      [] top = "pd" -> "pandas"
      [] top = "bs" -> "beautifulsoup4"
      [] top = "scikit" -> "scikit-learn"
      [] OTHER -> top

\* the matches of a pattern in the lines of the code, in order: names holds,
\* line by line, the match or None
NamesIn(names) == SelectSeq(names, LAMBDA n : n # NoneStr)

\* the filter on built-in and project-internal names: the names of the
\* model are in lower case and none starts with "none"
KeepName(d) == d \notin builtin_modules /\ d \notin project_modules

\* the normalisation loop: a name with a version is kept as it is, another
\* one is reduced to its top segment, mapped, and added unless present
RECURSIVE Normalized(_)
Normalized(dependencies) ==
    IF dependencies = <<>> THEN <<>>
    ELSE LET d == dependencies[Len(dependencies)]
             normalized == Normalized(SubSeq(dependencies, 1, Len(dependencies) - 1))
             pip_name == ModuleToPip(TopSegment(d))
         IN  IF HasVersionSpec(d) THEN Append(normalized, d)
             ELSE IF \E k \in 1..Len(normalized) : normalized[k] = pip_name
             THEN normalized
             ELSE Append(normalized, pip_name)

\* "remove duplicates while preserving order"
RECURSIVE Deduped(_)
Deduped(s) ==
    IF s = <<>> THEN <<>>
    ELSE LET deduped == Deduped(SubSeq(s, 1, Len(s) - 1))
         IN  IF \E k \in 1..Len(deduped) : deduped[k] = s[Len(s)]
             THEN deduped ELSE Append(deduped, s[Len(s)])

import_to_maven(imp) ==
    IF imp = "com.google.gson.Gson"
    THEN <<[groupId |-> "com.google.code.gson", artifactId |-> "gson", version |-> "2.10.1"]>>
    ELSE <<>>

\* CodeGeneratorAgent._extract_dependencies
ExtractDependencies(code, lang) ==
    IF lang = "python"
    THEN LET imports == NamesIn([i \in 1..Len(code) |-> ImportedName(code[i])])
             from_imports == NamesIn([i \in 1..Len(code) |-> FromImportedName(code[i])])
             requires == {i \in 1..Len(code) : IsRequires(code[i])}
             deps == IF requires = {} THEN <<>> ELSE RequiredNames(code[Min(requires)])
             dependencies == SelectSeq(imports \o from_imports \o deps, KeepName)
         IN  Deduped(Normalized(dependencies))
    ELSE LET requires == {i \in 1..Len(code) : IsJavaRequires(code[i])}
             required == IF requires = {} THEN <<>> ELSE JavaRequired(code[Min(requires)])
             imports == NamesIn([i \in 1..Len(code) |-> JavaImport(code[i])])
             detected == [k \in 1..Len(imports) |-> import_to_maven(imports[k])]
             RECURSIVE Flat(_)
             Flat(ss) == IF ss = <<>> THEN <<>> ELSE Head(ss) \o Flat(Tail(ss))
         IN  Deduped(required \o Flat(detected))

\* ------------------------------------------------- the host and its tools
\* The host: os.name, and the path the look-up of Maven ends with
\* (shutil.which("mvn"), then the common installation locations).
Hosts == [os_name : {"posix", "nt"}, mvn_path : {NoneStr, "mvn"}]

\* settings.execution_timeout, in seconds
execution_timeout == 60

\* What subprocess.run(...) does: the process completes with a return code
\* and its output, or TimeoutExpired is raised, or OSError is raised.
Completed(returncode, stdout, stderr) ==
    [kind |-> "completed", returncode |-> returncode, stdout |-> stdout, stderr |-> stderr]

TimeoutExpired == [kind |-> "TimeoutExpired", returncode |-> 0, stdout |-> <<>>, stderr |-> <<>>]

OSErrorRaised == [kind |-> "OSError", returncode |-> 0, stdout |-> <<>>, stderr |-> <<>>]

\* str(e) of the OSError
OSErrorText == "[Errno 12] Cannot allocate memory"

\* the lines of a string: the empty string has one empty line
LinesOf(text) == IF text = <<>> THEN <<"">> ELSE text

\* f"Execution timed out after {settings.execution_timeout} seconds"
ExecutionTimedOut == "Execution timed out after " \o ToString(execution_timeout) \o " seconds"

\* the dict an execution tool returns on a failure it reports itself
ExecError(error) == [success |-> FALSE, error |-> <<error>>, stdout |-> <<>>, stderr |-> <<>>]

\* the dict an execution tool returns for a completed process
ExecCompleted(p) ==
    [success |-> p.returncode = 0, error |-> <<>>, stdout |-> p.stdout, stderr |-> p.stderr]

\* A tool's invocation gives its result and the temp paths it leaves behind.
\* execute_python_code: the temp file is unlinked after the run and in the
\* TimeoutExpired handler; preexec_fn names set_limits, which is not defined,
\* on every host but Windows.
ExecutePythonCode(code, h, p) ==
    IF h.os_name # "nt"
    THEN [result |-> ExecError("name 'set_limits' is not defined"), left |-> {"temp_file"}]
    ELSE CASE p.kind = "completed" -> [result |-> ExecCompleted(p), left |-> {}]
           [] p.kind = "TimeoutExpired" -> [result |-> ExecError(ExecutionTimedOut), left |-> {}]
           [] OTHER -> [result |-> ExecError(OSErrorText), left |-> {"temp_file"}]

\* execute_java_code: temp_dir is removed after the execution and in the
\* TimeoutExpired handler
ExecuteJavaCode(code, h, compile, exec) ==
    IF h.mvn_path = NoneStr
    THEN [result |-> ExecError("Maven (mvn) not found in PATH or common installation locations"),
          left |-> {"temp_dir"}]
    ELSE IF compile.kind = "TimeoutExpired"
    THEN [result |-> ExecError(ExecutionTimedOut), left |-> {}]
    ELSE IF compile.kind = "OSError"
    THEN [result |-> ExecError(OSErrorText), left |-> {"temp_dir"}]
    ELSE IF compile.returncode # 0
    THEN [result |-> ExecCompleted(compile), left |-> {"temp_dir"}]
    ELSE IF exec.kind = "TimeoutExpired"
    THEN [result |-> ExecError(ExecutionTimedOut), left |-> {}]
    ELSE IF exec.kind = "OSError"
    THEN [result |-> ExecError(OSErrorText), left |-> {"temp_dir"}]
    ELSE [result |-> ExecCompleted(exec), left |-> {}]

\* install_python_dependencies: every exception, TimeoutExpired included,
\* gives a dict with "error" and without "stderr"
InstallPythonDependencies(dependencies, p) ==
    IF dependencies = <<>> THEN [success |-> TRUE, error |-> <<>>, stderr |-> <<>>]
    ELSE CASE p.kind = "completed"
                -> [success |-> p.returncode = 0, error |-> <<>>, stderr |-> p.stderr]
           [] p.kind = "TimeoutExpired"
                -> [success |-> FALSE, stderr |-> <<>>,
                    error |-> <<"Command '['python', '-m', 'pip', 'install', 'requests']' timed out after 300 seconds">>]
           [] OTHER -> [success |-> FALSE, error |-> <<OSErrorText>>, stderr |-> <<>>]

BuildResult(status, errors, suggested_fixes) ==
    [status |-> status, errors |-> errors, suggested_fixes |-> suggested_fixes]

\* the standard-library names of the Build Agent
stdlib_modules ==
    {"logging", "typing", "json", "math", "itertools", "collections", "datetime",
     "re", "sys", "os", "unittest", "pathlib", "io", "subprocess", "tempfile",
     "shutil", "copy", "pickle", "threading", "multiprocessing", "argparse",
     "configparser", "email", "urllib", "http", "socket", "ssl", "asyncio",
     "hashlib", "hmac", "secrets", "uuid", "enum", "dataclasses", "abc", "time",
     "csv", "functools", "random", "string", "textwrap", "difflib", "warnings",
     "sqlite3", "dbm", "shelve"}

\* BuildAgent._build_python: syntax check, then the installer on the
\* dependencies that are neither project-internal nor standard library
BuildPython(code, dependencies, p) ==
    IF "syntax_error" \in CodePatterns(code)
    THEN BuildResult("error", <<"Syntax error at line 1: invalid syntax">>,
                     <<"Fix syntax error: invalid syntax">>)
    ELSE LET filtered_deps == SelectSeq(dependencies,
                 LAMBDA d : d \notin project_internals /\ d \notin stdlib_modules)
             install_result == InstallPythonDependencies(filtered_deps, p)
             stderr == LinesOf(install_result.stderr)
         IN  IF dependencies # <<>> /\ ~install_result.success
             THEN BuildResult("error",
                     <<"Failed to install dependencies: " \o Head(stderr)>> \o Tail(stderr),
                     <<"Check package names and network connectivity">>)
             ELSE BuildResult("success", <<>>, <<>>)

\* (\w+\.java):(\d+):\s*error:\s*(.+) rewritten as "file:line - message"
JavacError(line) ==
    IF line = "Main.java:3: error: ';' expected" THEN "Main.java:3 - ';' expected"
    ELSE NoneStr

\* "[ERROR]" in line
IsMavenError(line) ==
    line = "[ERROR] Failed to transfer artifact: authentication failed for repository"

\* BuildAgent._parse_java_errors; of the phrases that select a fix the
\* lines of the model hold none but "cannot find symbol" and "package does
\* not exist"
ParseJavaErrors(error_output) ==
    LET matches == NamesIn([i \in 1..Len(error_output) |-> JavacError(error_output[i])])
        symbol == Matches(error_output, "symbol")
    IN  [errors |-> IF matches # <<>> THEN matches ELSE error_output,
         fixes |->
            IF symbol \/ Matches(error_output, "pkgmissing")
            THEN (IF symbol
                  THEN <<"Missing import statement or undefined variable",
                         "Check if all classes and methods are properly imported">>
                  ELSE <<>>)
                 \o <<"Add required Maven dependencies to pom.xml",
                      "Ensure all external libraries are properly declared">>
            ELSE <<"Review Java syntax and structure", "Check Maven dependencies">>]

\* the first n elements
Take(s, n) == SubSeq(s, 1, IF Len(s) < n THEN Len(s) ELSE n)

\* mutant: the build goes on without having located Maven
MavenTakenForLocated(h) == TRUE

\* `not mvn_path and not mvnw_path` does not hold; the repository has no
\* Maven wrapper and the fresh temp_dir has none
MavenLocated(h) == h.mvn_path # NoneStr

\* BuildAgent._build_java: temp_dir is removed on the success path only
BuildJava(code, dependencies, h, p) ==
    IF "public_class" \notin CodePatterns(code)
    THEN [result |-> BuildResult("error",
                <<"Could not find public class declaration",
                  "The generated code may be incomplete or invalid Java">>,
                <<"Ensure code has 'public class ClassName'",
                  "Check that code is valid Java (not pseudocode or incomplete)",
                  "For Spring Boot single-file: Simplify the request or use multi-file generation">>),
          left |-> {"temp_dir"}]
    ELSE IF ~MavenLocated(h)
    THEN [result |-> BuildResult("error",
                <<"Maven (mvn) not found in system PATH or common installation locations">>,
                <<"Maven is installed but not in PATH. Please:",
                  "1. Add Maven bin directory to system PATH: C:\\Program Files\\apache-maven-3.9.11\\bin",
                  "2. Then restart VS Code to refresh the environment",
                  "Or add a Maven wrapper (mvnw) to the project">>),
          left |-> {"temp_dir"}]
    ELSE CASE p.kind = "completed" /\ p.returncode # 0 ->
                LET parsed_errors == ParseJavaErrors(LinesOf(p.stderr) \o LinesOf(p.stdout))
                IN  [result |-> BuildResult("error",
                            parsed_errors.errors \o Take(SelectSeq(p.stdout, IsMavenError), 5),
                            parsed_errors.fixes),
                     left |-> {"temp_dir"}]
           [] p.kind = "completed" /\ p.returncode = 0 ->
                [result |-> BuildResult("success", <<>>, <<>>), left |-> {}]
           [] p.kind = "TimeoutExpired" ->
                [result |-> BuildResult("error", <<"Maven build timed out">>,
                                        <<"Simplify dependencies or increase timeout">>),
                 left |-> {"temp_dir"}]
           [] OTHER ->
                [result |-> BuildResult("error", <<OSErrorText>>,
                                        <<"Review Java code structure and syntax">>),
                 left |-> {"temp_dir"}]

\* BuildAgent.analyze_and_build
AnalyzeAndBuild(code, lang, dependencies, h, p) ==
    IF lang = "python"
    THEN [result |-> BuildPython(code, dependencies, p), left |-> {}]
    ELSE BuildJava(code, dependencies, h, p)

\* BuildAgent._build_java_project: temp_dir is removed after a completed
\* compilation, failed or not
BuildJavaProject(files, h, p) ==
    IF \A k \in 1..Len(files) : ~IsJavaFile(files[k].filename)
    THEN [result |-> BuildResult("error", <<"No Java files found in project">>,
                                 <<"Add Java source files">>),
          left |-> {"temp_dir"}]
    ELSE IF h.mvn_path = NoneStr
    THEN [result |-> BuildResult("error", <<"Maven not found in system PATH">>,
                                 <<"Install Maven and add to PATH",
                                   "Or use Maven wrapper (mvnw)">>),
          left |-> {"temp_dir"}]
    ELSE CASE p.kind = "completed" /\ p.returncode # 0 ->
                LET parsed_errors == ParseJavaErrors(LinesOf(p.stderr) \o LinesOf(p.stdout))
                IN  [result |-> BuildResult("error",
                            parsed_errors.errors \o Take(SelectSeq(p.stdout, IsMavenError), 10),
                            parsed_errors.fixes),
                     left |-> {}]
           [] p.kind = "completed" /\ p.returncode = 0 ->
                [result |-> BuildResult("success", <<>>, <<>>), left |-> {}]
           [] p.kind = "TimeoutExpired" ->
                [result |-> BuildResult("error",
                            <<"Command 'mvn clean compile' timed out after 120 seconds">>,
                            <<"Review project structure and dependencies">>),
                 left |-> {"temp_dir"}]
           [] OTHER ->
                [result |-> BuildResult("error", <<OSErrorText>>,
                                        <<"Review project structure and dependencies">>),
                 left |-> {"temp_dir"}]

\* TestingAgent._create_failure_result
CreateFailureResult(exec_result) ==
    LET error_msg == IF exec_result.error # <<>> THEN exec_result.error
                     ELSE IF exec_result.stderr # <<>> THEN exec_result.stderr
                     ELSE <<"Unknown error">>
    IN  [status |-> "fail",
         issues_found |-> error_msg,
         execution_logs |-> <<"STDOUT:">> \o LinesOf(exec_result.stdout)
                            \o <<"", "STDERR:">> \o error_msg]

\* "error" in line.lower()
SaysError(line) ==
    line \in {"HTTP Error 401: Invalid API key",
              "ModuleNotFoundError: No module named 'requestz'",
              "DeprecationWarning: the error handler is deprecated"}

\* TestingAgent._basic_validation: output and no "error" in stderr is a pass
BasicValidation(exec_result) ==
    LET has_output == exec_result.stdout # <<>>
        has_errors == /\ exec_result.stderr # <<>>
                      /\ \E i \in 1..Len(exec_result.stderr) : SaysError(exec_result.stderr[i])
    IN  [status |-> IF has_output /\ ~has_errors THEN "pass" ELSE "fail",
         issues_found |-> IF has_output /\ ~has_errors THEN <<>>
                          ELSE IF ~has_output THEN <<"No output generated">>
                          ELSE <<"Errors in execution">>,
         execution_logs |-> LinesOf(exec_result.stdout) \o LinesOf(exec_result.stderr)]

\* TestingAgent._validate_with_llm, the judge answering with verdict: the
\* status of the JSON answer is taken as it is ("fail" when the key is
\* missing); an answer without JSON falls back to _basic_validation
ValidateWithLLM(exec_result, verdict) ==
    IF ~verdict.json THEN BasicValidation(exec_result)
    ELSE [status |-> IF verdict.status = NoneStr THEN "fail" ELSE verdict.status,
          issues_found |-> verdict.issues_found,
          execution_logs |-> LinesOf(exec_result.stdout) \o LinesOf(exec_result.stderr)]

\* TestingAgent.execute_and_test; run.compile and run.exec are what the
\* compilation and the execution do, verdict is what the judge answers
ExecuteAndTest(code, lang, h, run, verdict) ==
    IF lang # "python" /\ "public_class" \notin CodePatterns(code)
    THEN [result |-> [status |-> "fail",
                      issues_found |-> <<"Java code must have a public class">>,
                      execution_logs |-> <<>>],
          left |-> {}]
    ELSE LET executed == IF lang = "python" THEN ExecutePythonCode(code, h, run.exec)
                         ELSE ExecuteJavaCode(code, h, run.compile, run.exec)
         IN  [result |-> IF ~executed.result.success
                         THEN CreateFailureResult(executed.result)
                         ELSE ValidateWithLLM(executed.result, verdict),
              left |-> executed.left]

\* what the installer, Maven, the interpreter and the JVM can do
PipRuns ==
    {Completed(0, <<>>, <<>>),
     Completed(1, <<>>, <<"ERROR: No matching distribution found for requestz">>),
     Completed(1, <<>>, <<"ERROR: HTTP error 407: Proxy Authentication Required">>),
     TimeoutExpired, OSErrorRaised}

MavenRuns ==
    {Completed(0, <<>>, <<>>),
     Completed(1, <<"Main.java:3: error: ';' expected">>, <<>>),
     Completed(1, <<"[ERROR] Failed to transfer artifact: authentication failed for repository">>, <<>>),
     TimeoutExpired, OSErrorRaised}

BuildRuns(lang) == IF lang = "python" THEN PipRuns ELSE MavenRuns

ProgramRuns(lang) ==
    {Completed(0, <<"hello">>, <<>>),
     Completed(1, <<>>, <<"HTTP Error 401: Invalid API key">>),
     TimeoutExpired, OSErrorRaised}
    \cup (IF lang = "python"
          THEN {Completed(1, <<>>, <<"ModuleNotFoundError: No module named 'requestz'">>)}
          ELSE {})

\* a run of the Testing Agent: the JVM is started after a compilation
TestRuns(lang) ==
    {[compile |-> Completed(0, <<>>, <<>>), exec |-> e] : e \in ProgramRuns(lang)}
    \cup (IF lang = "python" THEN {}
          ELSE {[compile |-> c, exec |-> Completed(0, <<"hello">>, <<>>)] :
                    c \in MavenRuns \ {Completed(0, <<>>, <<>>)}})

\* the judge's answers: a JSON object whose "status" is a string of the
\* judge's choosing or is missing (NoneStr), or a text without JSON
Verdicts ==
    {[json |-> TRUE, status |-> "pass", issues_found |-> <<>>],
     [json |-> TRUE, status |-> "fail", issues_found |-> <<"Output does not meet the requirements">>],
     [json |-> TRUE, status |-> "passed", issues_found |-> <<>>],
     [json |-> TRUE, status |-> NoneStr, issues_found |-> <<"Output does not meet the requirements">>],
     [json |-> FALSE, status |-> NoneStr, issues_found |-> <<>>]}

\* ------------------------------------------------------- Project Validator

\* re.search(r"package\s+([\w.]+);", file.code): the declared package, NoneStr
\* when the code declares none
DeclaredPackage(code) ==
    LET PackageOfLine(line) ==
            CASE line = "package com.x;" -> "com.x"
              [] line = "package com.y;" -> "com.y"
              [] line = "package x;" -> "x"
              [] OTHER -> NoneStr
        declared == SelectSeq(code, LAMBDA line : PackageOfLine(line) # NoneStr)
    IN  IF declared = <<>> THEN NoneStr ELSE PackageOfLine(declared[1])

\* "/src/main/java/" in file.filename
UnderSrcMainJava(filename) == filename \in {"app/src/main/java/com/x/A.java"}

\* package_name.replace(".", "/") in file.filename: a substring test
PathHasPackage(filename, package_name) ==
    /\ filename \in {"app/src/main/java/com/x/A.java", "src/main/java/com/x/A.java"}
    /\ package_name \in {"com.x", "x"}

\* ProjectValidatorAgent._validate_java_project: the errors
ValidateJavaProject(files) ==
    LET java_files == SelectSeq(files, LAMBDA f : f.language = "java" \/ IsJavaFile(f.filename))
        Mismatch(f) == /\ DeclaredPackage(f.code) # NoneStr
                       /\ UnderSrcMainJava(f.filename)
                       /\ ~PathHasPackage(f.filename, DeclaredPackage(f.code))
        wrong == SelectSeq(java_files, Mismatch)
    IN  [k \in 1..Len(wrong) |->
            "Java file " \o wrong[k].filename \o " package '"
            \o DeclaredPackage(wrong[k].code) \o "' doesn't match path"]

\* ProjectValidatorAgent.validate_project: _validate_python_project only warns
ValidateProjectFiles(files, lang) ==
    LET errors == IF lang = "java" THEN ValidateJavaProject(files) ELSE <<>>
    IN  [success |-> errors = <<>>, errors |-> errors]

\* ------------------------------------------- functions called on their own

VARIABLES
    call,   \* a function of the program called on its own: name and arguments
    ret,    \* <<>> until the call has returned, then <<its return value>>
    temp_paths  \* the temp files and directories that exist

unit == <<call, ret, temp_paths>>

\* no function is called on its own: an entry point of the Orchestrator runs
NoCall == [fn |-> "None"]

\* -------------------------------------------------------- sessions together

VARIABLES
    running,    \* the entry points running at once, each in its own process
    accessed    \* the filesystem locations each of them has read or written

processes == <<running, accessed>>

\* ------------------------------------------------------ StreamlitLogHandler

VARIABLES
    threads,       \* the threads that use the log handler: where each one is
    handler,       \* the module global _handler: 0 is None, else an instance
    handler_lock,  \* the holder of _handler_lock, 0 when it is free
    handlers       \* the StreamlitLogHandler instances constructed so far

log_handler == <<threads, handler, handler_lock, handlers>>

concurrent == <<processes, log_handler>>

\* one entry point alone: no other process is looked at and no thread logs
ConcurrentIdle ==
    /\ running = <<>>
    /\ accessed = {}
    /\ threads = <<>>
    /\ handler = 0
    /\ handler_lock = 0
    /\ handlers = <<>>

\* ------------------------------------------------------------ Orchestrator

VARIABLES
    mode,                        \* "code": generate_code, "project": generate_project
    language,                    \* the language argument
    host,                        \* the host the program runs on
    has_callback,                \* progress_callback is not None
    enable_session_persistence,  \* settings.enable_session_persistence
    pc,                          \* position in the entry point
    iteration,                   \* the loop variable
    session,                     \* the GenerationSession / ProjectSession
    iteration_log,               \* the IterationLog of the running iteration
    error_context,               \* the local error_context of generate_code
    generated,                   \* locals generated_code, filename, dependencies
    gen_calls,                   \* calls of the Code Generator so far
    build_calls,                 \* calls of the Build Agent so far
    test_calls,                  \* calls of the Testing Agent so far
    last_context,                \* error_context of the latest generator call
    saved,                       \* writes of <session_id>/metadata.json
    test_run,                    \* what the latest test's processes and judge do
    metadata,                    \* <session_id>/metadata.json: <<>> or <<its content>>
    saved_files                  \* the other files written under <session_id>/

vars == <<unit, concurrent, mode, language, host, has_callback, enable_session_persistence, pc,
          iteration, session, iteration_log, error_context, generated,
          gen_calls, build_calls, test_calls, last_context, saved, test_run,
          metadata, saved_files>>

\* The part of the host an entry point consults: generate_code runs the
\* interpreter for Python and Maven for Java; os.name decides nothing in the
\* Java tools, and Maven is not looked up for Python.
HostsOf(m, lang) ==
    IF m = "code" /\ lang = "python" THEN {h \in Hosts : h.mvn_path = "mvn"}
    ELSE IF m = "code" THEN {h \in Hosts : h.os_name = "posix"}
    ELSE {[os_name |-> "posix", mvn_path |-> "mvn"]}

\* no test has run / the judge was not asked
NoVerdict == [json |-> FALSE, status |-> "None", issues_found |-> <<>>]

NoTestRun ==
    [run |-> [compile |-> TimeoutExpired, exec |-> TimeoutExpired], verdict |-> NoVerdict]

\* the judge is asked when the compilation and the execution exit with 0
VerdictsFor(run) ==
    IF /\ run.compile.kind = "completed" /\ run.compile.returncode = 0
       /\ run.exec.kind = "completed" /\ run.exec.returncode = 0
    THEN Verdicts ELSE {NoVerdict}

NothingGenerated == [code |-> NoneStr, filename |-> NoneStr, dependencies |-> <<>>]

\* mutant: the generator's output is used without the emptiness test
HasCodeUnchecked(generated_code) == TRUE

\* `if not generated_code`: None and "" are both falsy
HasCode(generated_code) == generated_code \notin {NoneStr, ""}

\* mutant: range(1, session.max_iterations)
LoopHasNextOffByOne(i, max_iterations) == i < max_iterations

\* range(1, session.max_iterations + 1)
LoopHasNext(i, max_iterations) == i <= max_iterations

\* mutant: the failed-generation path continues without appending its log
AppendLogUnlessGenerationFailed(iterations, log) ==
    IF log.code_gen_status = FAILED THEN iterations ELSE Append(iterations, log)

\* session.iterations.append(iteration_log)
AppendLog(iterations, log) == Append(iterations, log)

\* mutant: the build stage is skipped
StageAfterGenerationSkipsBuild(m) == "test"

\* the stage an iteration enters once its generation succeeded
StageAfterGeneration(m) == IF m = "code" THEN "build" ELSE "validate"

\* `test_result.status != "pass"` decides between the failure path and success
TestPassed(test_result) == test_result.status = "pass"

\* mutant: the failed-test path does not refresh error_context
ContextAfterTestFailureStale(old_context, error_info, i, max_iterations) ==
    old_context

\* the error_context after a failed test stage (generate_code)
ContextAfterTestFailure(old_context, error_info, i, max_iterations) ==
    FormatErrorContext(error_info, i, max_iterations)

\* the error_context after a failed build stage (generate_code)
ContextAfterBuildFailure(old_context, error_info, i, max_iterations) ==
    FormatErrorContext(error_info, i, max_iterations)

\* a message handed over as error_context; the generator turns a falsy one
\* into the empty string
MessageAsContext(error_message) ==
    IF error_message \in {NoneStr, ""} THEN EmptyContext
    ELSE [error_type |-> "", root_cause |-> error_message, iteration |-> 0]

\* error_context argument of generate_project_code:
\* `iteration_log.error_message if iteration > 1 else ""`
ProjectErrorContext(log, i) ==
    IF i > 1 THEN MessageAsContext(log.error_message) ELSE EmptyContext

Init ==
    /\ call = NoCall
    /\ ret = <<>>
    /\ temp_paths = {}
    /\ ConcurrentIdle
    /\ mode \in {"code", "project"}
    /\ language \in Languages
    /\ host \in HostsOf(mode, language)
    /\ has_callback \in BOOLEAN
    /\ enable_session_persistence \in BOOLEAN
    /\ \E max_iterations \in 1..MaxIter :
            session = IF mode = "code" THEN NewSession(max_iterations)
                      ELSE [NewSession(max_iterations) EXCEPT
                                !.project_name = "demo", !.project_template = "fastapi"]
    /\ pc = IF mode = "code" THEN "loop" ELSE "scaffold"
    /\ iteration = 1
    /\ iteration_log = IterationLog(0)
    /\ error_context = EmptyContext
    /\ generated = NothingGenerated
    /\ gen_calls = 0
    /\ build_calls = 0
    /\ test_calls = 0
    /\ last_context = EmptyContext
    /\ saved = 0
    /\ test_run = NoTestRun
    /\ metadata = <<>>
    /\ saved_files = <<>>

\* `continue` after the log was appended
Continue(log) ==
    /\ session' = [session EXCEPT !.iterations = AppendLog(@, log)]
    /\ iteration_log' = log
    /\ iteration' = iteration + 1
    /\ pc' = "loop"

\* mutant: a failed scaffolding goes through the finalisation
AfterScaffoldFinalizes(success) == IF success THEN "loop" ELSE "finalize"

\* "return session" right after a failed scaffolding, else on to the loop
AfterScaffold(success) == IF success THEN "loop" ELSE "returned"

\* generate_project, step 1
ScaffoldProject ==
    /\ pc = "scaffold"
    /\ \E scaffold_result \in ScaffoldResults :
        /\ pc' = AfterScaffold(scaffold_result.success)
        /\ IF ~scaffold_result.success
           THEN session' = [session EXCEPT !.status = FAILED, !.success = FALSE]
           ELSE UNCHANGED session
    /\ UNCHANGED <<unit, concurrent, mode, language, host, has_callback, enable_session_persistence,
                   test_run, metadata, saved_files,
                   iteration, iteration_log, error_context, generated,
                   gen_calls, build_calls, test_calls, last_context, saved>>

\* head of the for loop: a fresh IterationLog; generate_code also sets
\* session.current_iteration
StartIteration ==
    /\ pc = "loop"
    /\ LoopHasNext(iteration, session.max_iterations)
    /\ iteration_log' = IterationLog(iteration)
    /\ session' = IF mode = "code"
                  THEN [session EXCEPT !.current_iteration = iteration]
                  ELSE session
    /\ pc' = "gen"
    /\ UNCHANGED <<unit, concurrent, mode, language, host, has_callback, enable_session_persistence,
                   test_run, metadata, saved_files,
                   iteration, error_context, generated,
                   gen_calls, build_calls, test_calls, last_context, saved>>

\* the for loop is exhausted
LoopExit ==
    /\ pc = "loop"
    /\ ~LoopHasNext(iteration, session.max_iterations)
    /\ pc' = "finalize"
    /\ UNCHANGED <<unit, concurrent, mode, language, host, has_callback, enable_session_persistence,
                   test_run, metadata, saved_files,
                   iteration, session, iteration_log, error_context, generated,
                   gen_calls, build_calls, test_calls, last_context, saved>>

\* progress_callback(...) ahead of a stage raises: no handler encloses the
\* call, the exception leaves the entry point
ProgressCallbackRaises ==
    /\ has_callback
    /\ pc \in {"scaffold", "gen", "validate", "build", "test"}
    /\ pc' = "raised"
    /\ UNCHANGED <<unit, concurrent, mode, language, host, has_callback, enable_session_persistence,
                   test_run, metadata, saved_files,
                   iteration, session, iteration_log, error_context, generated,
                   gen_calls, build_calls, test_calls, last_context, saved>>

\* generate_code, step 1
GenerateCode ==
    /\ pc = "gen"
    /\ mode = "code"
    /\ gen_calls' = gen_calls + 1
    /\ last_context' = error_context
    /\ \E code_result \in GenerateCodeResults(language) :
        IF ~code_result.success
        THEN /\ Continue([iteration_log EXCEPT !.code_gen_status = FAILED,
                                               !.error_message = code_result.error])
             /\ UNCHANGED generated
        ELSE LET files == code_result.files
                 generated_code == IF files # <<>> THEN files[1].code ELSE NoneStr
                 filename == IF files # <<>> THEN files[1].filename ELSE NoneStr
             IN  IF ~HasCode(generated_code)
                 THEN /\ Continue([iteration_log EXCEPT
                                      !.code_gen_status = FAILED,
                                      !.error_type = LOGIC,
                                      !.error_message = "Code generator did not return code."])
                      /\ generated' = [code |-> generated_code, filename |-> filename,
                                       dependencies |-> code_result.dependencies]
                 ELSE /\ iteration_log' = [iteration_log EXCEPT
                                              !.code_gen_status = SUCCESS,
                                              !.generated_code = generated_code]
                      /\ generated' = [code |-> generated_code, filename |-> filename,
                                       dependencies |-> code_result.dependencies]
                      /\ pc' = StageAfterGeneration(mode)
                      /\ UNCHANGED <<session, iteration>>
    /\ UNCHANGED <<unit, concurrent, mode, language, host, has_callback, enable_session_persistence,
                   test_run, metadata, saved_files,
                   error_context, build_calls, test_calls, saved>>

\* generate_code, step 2
BuildCode ==
    /\ pc = "build"
    /\ mode = "code"
    /\ build_calls' = build_calls + 1
    /\ \E p \in BuildRuns(language) :
        LET built == AnalyzeAndBuild(generated.code, language, generated.dependencies, host, p)
            build_result == built.result
        IN
        /\ temp_paths' = temp_paths \cup built.left
        /\ IF build_result.status # "success"
           THEN LET error_info == ParseError(build_result.errors, language, generated.code)
                    log == [iteration_log EXCEPT
                               !.build_result = build_result,
                               !.build_status = FAILED,
                               !.error_type = error_info.error_type,
                               !.error_message = error_info.root_cause]
                IN  /\ session' = [session EXCEPT
                           !.missing_credentials =
                               IF error_info.missing_credentials # <<>>
                               THEN error_info.missing_credentials ELSE @,
                           !.iterations = AppendLog(@, log)]
                    /\ error_context' = ContextAfterBuildFailure(
                           error_context, error_info, iteration, session.max_iterations)
                    /\ iteration_log' = log
                    /\ iteration' = iteration + 1
                    /\ pc' = "loop"
           ELSE /\ iteration_log' = [iteration_log EXCEPT
                                        !.build_result = build_result,
                                        !.build_status = SUCCESS]
                /\ pc' = "test"
                /\ UNCHANGED <<session, iteration, error_context>>
    /\ UNCHANGED <<call, ret, concurrent, mode, language, host, has_callback, enable_session_persistence,
                   test_run, metadata, saved_files,
                   generated, gen_calls, test_calls, last_context, saved>>

\* generate_code, step 3
TestCode ==
    /\ pc = "test"
    /\ mode = "code"
    /\ test_calls' = test_calls + 1
    /\ \E run \in TestRuns(language) : \E verdict \in VerdictsFor(run) :
        LET tested == ExecuteAndTest(generated.code, language, host, run, verdict)
            test_result == tested.result
        IN
        /\ test_run' = [run |-> run, verdict |-> verdict]
        /\ temp_paths' = temp_paths \cup tested.left
        /\ IF ~TestPassed(test_result)
           THEN LET error_message == test_result.issues_found \o test_result.execution_logs
                    error_info == ParseError(error_message, language, generated.code)
                IN  /\ Continue([iteration_log EXCEPT
                                    !.test_result = test_result,
                                    !.test_status = FAILED,
                                    !.error_type = error_info.error_type,
                                    !.error_message = error_info.root_cause])
                    /\ error_context' = ContextAfterTestFailure(
                           error_context, error_info, iteration, session.max_iterations)
           ELSE LET log == [iteration_log EXCEPT !.test_result = test_result,
                                                 !.test_status = SUCCESS]
                IN  /\ session' = [session EXCEPT
                           !.status = SUCCESS,
                           !.success = TRUE,
                           !.final_code = CodeArtifact(generated.code, generated.filename,
                                                       generated.dependencies),
                           !.iterations = AppendLog(@, log)]
                    /\ iteration_log' = log
                    /\ pc' = "finalize"
                    /\ UNCHANGED <<iteration, error_context>>
    /\ UNCHANGED <<call, ret, concurrent, mode, language, host, has_callback, enable_session_persistence,
                   metadata, saved_files, generated, gen_calls, build_calls, last_context, saved>>

\* the fields of GenerationSession
GenerationSessionFields ==
    {"session_id", "created_at", "status", "current_iteration", "max_iterations",
     "iterations", "final_code", "missing_credentials", "total_execution_time_set",
     "success"}

\* the fields ProjectSession adds
ProjectSessionFields == {"project_template", "project_name", "files", "all_dependencies"}

\* session.model_dump_json(): the fields of the session's class
ModelDumpJson(s, m) ==
    [f \in IF m = "code" THEN GenerationSessionFields
           ELSE GenerationSessionFields \cup ProjectSessionFields |-> s[f]]

\* _save_session writes the final code, if any, beside metadata.json;
\* _save_project_session writes every file of session.files under files/
SaveFiles(s, m) ==
    IF m = "code"
    THEN IF s.final_code # NoCodeArtifact
         THEN <<[path |-> s.final_code.filename, code |-> s.final_code.code]>>
         ELSE <<>>
    ELSE [i \in 1..Len(s.files) |->
            [path |-> "files/" \o s.files[i].filename, code |-> s.files[i].code]]

\* the values of ErrorType
allowed_error_types == {SYNTAX, BUILD, RUNTIME, LOGIC, MISSING_CREDENTIALS}

\* load_session without its rewrite of the stored error_type
NormalizeErrorTypeKeepsStored(et) == et

\* load_session rewrites an error_type that is not a value of ErrorType:
\* "if et and et not in allowed_error_types"
NormalizeErrorType(et) ==
    IF et \notin {NoErrorType, ""} /\ et \notin allowed_error_types
    THEN LOGIC ELSE et

\* GenerationSession.model_validate(data): <<>> when a ValidationError is raised
\* (an error_type that is neither None nor a value of ErrorType), otherwise
\* the session, which keeps the fields of GenerationSession
ModelValidate(data) ==
    IF \E k \in 1..Len(data.iterations) :
            data.iterations[k].error_type \notin allowed_error_types \cup {NoErrorType}
    THEN <<>>
    ELSE <<[f \in GenerationSessionFields |-> data[f]]>>

\* the rewrite both load_session and list_sessions apply to the parsed JSON
NormalizedData(data) ==
    [data EXCEPT !.iterations =
        [k \in 1..Len(data.iterations) |->
            [data.iterations[k] EXCEPT !.error_type = NormalizeErrorType(@)]]]

\* OrchestratorAgent.load_session on the content of metadata.json, <<>> when
\* the file is missing: <<>> stands for the None it returns, <<s>> for session s
LoadSession(file) ==
    IF file = <<>> THEN <<>> ELSE ModelValidate(NormalizedData(file[1]))

\* sessions.sort(key=created_at, reverse=True): a stable sort, newest first
RECURSIVE NewestFirst(_)
NewestFirst(sessions) ==
    IF sessions = <<>> THEN <<>>
    ELSE LET h == Head(sessions)
             rest == NewestFirst(Tail(sessions))
             k == Cardinality({i \in 1..Len(rest) : rest[i].created_at > h.created_at})
         IN  SubSeq(rest, 1, k) \o <<h>> \o SubSeq(rest, k + 1, Len(rest))

\* OrchestratorAgent.list_sessions on the metadata.json files of the session
\* directories, in the order iterdir() yields them: a file that fails
\* validation is skipped, the others are summarised
ListSessions(store) ==
    LET loaded == [i \in 1..Len(store) |-> ModelValidate(NormalizedData(store[i]))]
        valid == SelectSeq(loaded, LAMBDA l : l # <<>>)
    IN  NewestFirst([i \in 1..Len(valid) |->
            [session_id |-> valid[i][1].session_id,
             success |-> valid[i][1].success,
             created_at |-> valid[i][1].created_at]])

\* the session is saved whatever the setting says
PersistsAlways(enabled) == TRUE

\* "if settings.enable_session_persistence:" ahead of the save
Persists(enabled) == enabled

\* "Finalize session": stamp the time, FAILED unless success, save, return
Finalize ==
    /\ pc = "finalize"
    /\ session' = [session EXCEPT
            !.total_execution_time_set = TRUE,
            !.status = IF ~session.success THEN FAILED ELSE @]
    /\ saved' = IF Persists(enable_session_persistence) THEN saved + 1 ELSE saved
    /\ metadata' = IF Persists(enable_session_persistence)
                   THEN <<ModelDumpJson(session', mode)>> ELSE metadata
    /\ saved_files' = IF Persists(enable_session_persistence)
                      THEN SaveFiles(session', mode) ELSE saved_files
    /\ pc' = "returned"
    /\ UNCHANGED <<unit, concurrent, mode, language, host, has_callback, enable_session_persistence,
                   test_run,
                   iteration, iteration_log, error_context, generated,
                   gen_calls, build_calls, test_calls, last_context>>

\* generate_project, step 2: multi-file generation
\* "FileArtifact(filename=f.get("filename", ...), code=f.get("code", ""), ...)"
\* for each generated file: its filename and its code
FileArtifacts(generated_files) ==
    [i \in 1..Len(generated_files) |->
        [filename |-> generated_files[i].filename, code |-> generated_files[i].code]]

\* mutant: the session takes a bundle only once it has passed every stage
WithoutBundle(s, files, dependencies) == s

\* "session.files = files_to_validate; session.all_dependencies = dependencies"
WithBundle(s, files, dependencies) ==
    [s EXCEPT !.files = files, !.all_dependencies = dependencies]

GenerateProject ==
    /\ pc = "gen"
    /\ mode = "project"
    /\ gen_calls' = gen_calls + 1
    /\ last_context' = ProjectErrorContext(iteration_log, iteration)
    /\ \E code_result \in GenerateProjectResults(language) :
        LET generated_files == code_result.files IN
        /\ generated' = [files |-> generated_files, dependencies |-> code_result.dependencies]
        /\ IF generated_files = <<>>
           THEN Continue([iteration_log EXCEPT !.code_gen_status = FAILED])
           ELSE
             /\ session' = WithBundle(session, FileArtifacts(generated_files),
                                      code_result.dependencies)
             /\ iteration_log' = [iteration_log EXCEPT !.code_gen_status = SUCCESS]
             /\ pc' = StageAfterGeneration(mode)
             /\ UNCHANGED iteration
    /\ UNCHANGED <<unit, concurrent, mode, language, host, has_callback, enable_session_persistence,
                   test_run, metadata, saved_files,
                   error_context, build_calls, test_calls, saved>>

\* generate_project, step 3: project validation
ValidateProject ==
    /\ pc = "validate"
    /\ mode = "project"
    /\ \E validation_result \in ValidationResults(language) :
        IF ~validation_result.success
        THEN Continue([iteration_log EXCEPT
                          !.build_status = FAILED,
                          !.error_type = LOGIC,
                          !.error_message = JoinLines(validation_result.errors)])
        ELSE /\ iteration_log' = [iteration_log EXCEPT !.build_status = SUCCESS]
             /\ pc' = "build"
             /\ UNCHANGED <<session, iteration>>
    /\ UNCHANGED <<unit, concurrent, mode, language, host, has_callback, enable_session_persistence,
                   test_run, metadata, saved_files,
                   error_context, generated, gen_calls, build_calls, test_calls,
                   last_context, saved>>

\* generate_project, step 4: project build
BuildProject ==
    /\ pc = "build"
    /\ mode = "project"
    /\ build_calls' = build_calls + 1
    /\ \E build_result \in BuildResults(language) :
        IF build_result.status # "success"
        THEN Continue([iteration_log EXCEPT
                          !.build_status = FAILED,
                          !.error_message = JoinLines(build_result.errors)])
        ELSE /\ iteration_log' = [iteration_log EXCEPT !.build_status = SUCCESS]
             /\ pc' = "test"
             /\ UNCHANGED <<session, iteration>>
    /\ UNCHANGED <<unit, concurrent, mode, language, host, has_callback, enable_session_persistence,
                   test_run, metadata, saved_files,
                   error_context, generated, gen_calls, test_calls,
                   last_context, saved>>

\* generate_project, step 5: project test
TestProject ==
    /\ pc = "test"
    /\ mode = "project"
    /\ test_calls' = test_calls + 1
    /\ \E test_result \in TestResults(language) :
        IF ~TestPassed(test_result)
        THEN Continue([iteration_log EXCEPT
                          !.test_status = FAILED,
                          !.test_result = test_result])
        ELSE LET log == [iteration_log EXCEPT !.test_status = SUCCESS]
             IN  /\ session' = [session EXCEPT
                        !.success = TRUE,
                        !.status = SUCCESS,
                        !.iterations = AppendLog(@, log)]
                 /\ iteration_log' = log
                 /\ pc' = "finalize"
                 /\ UNCHANGED iteration
    /\ UNCHANGED <<unit, concurrent, mode, language, host, has_callback, enable_session_persistence,
                   test_run, metadata, saved_files,
                   error_context, generated, gen_calls, build_calls,
                   last_context, saved>>

Next ==
    \/ ScaffoldProject
    \/ StartIteration
    \/ LoopExit
    \/ ProgressCallbackRaises
    \/ GenerateCode
    \/ BuildCode
    \/ TestCode
    \/ GenerateProject
    \/ ValidateProject
    \/ BuildProject
    \/ TestProject
    \/ Finalize

Spec == Init /\ [][Next]_vars

\* The scheduling of a call: sequential code, every enabled step is taken.
FairSpec == Spec /\ WF_vars(Next)

TypeOK ==
    /\ mode \in {"code", "project"}
    /\ language \in Languages
    /\ pc \in {"scaffold", "loop", "gen", "validate", "build", "test",
               "finalize", "returned", "raised"}
    /\ iteration \in 1..(MaxIter + 1)
    /\ session.max_iterations \in 1..MaxIter

\* ------------------------------------------------------------------ claims

Returned == pc = "returned"

\* the loop of the entry point has ended and the session was finalized
LoopEnded == session.total_execution_time_set

LastLog == session.iterations[Len(session.iterations)]

\* C1: every session returned by generate_code has
\* 0 <= current_iteration <= max_iterations and
\* len(iterations) = current_iteration.
C1_IterationCount ==
    (mode = "code" /\ Returned) =>
        /\ 0 <= session.current_iteration
        /\ session.current_iteration <= session.max_iterations
        /\ Len(session.iterations) = session.current_iteration

C1_Witness ==
    /\ mode = "code" /\ Returned
    /\ session.current_iteration = 2
    /\ session.iterations[1].code_gen_status = FAILED

\* C2: every ProjectSession returned by generate_project after its loop has
\* ended has current_iteration <= max_iterations and
\* len(iterations) = current_iteration.
C2_ProjectIterationCount ==
    (mode = "project" /\ Returned /\ LoopEnded) =>
        /\ session.current_iteration <= session.max_iterations
        /\ Len(session.iterations) = session.current_iteration

\* C3: a session with success = true has a non-empty final bundle
\* (final_code with non-empty code for generate_code, a non-empty files list
\* for generate_project) and its last iteration log has test_status SUCCESS.
C3_SuccessHasBundle ==
    session.success =>
        /\ IF mode = "code"
           THEN session.final_code.code \notin {"", NoneStr}
           ELSE session.files # <<>>
        /\ session.iterations # <<>>
        /\ LastLog.test_status = SUCCESS

C3_Witness ==
    /\ Returned /\ session.success
    /\ Len(session.iterations) = 2
    /\ session.iterations[1].test_status = FAILED

\* C4: the stages of a session run in the order generate -> build -> test:
\* the Build Agent is called only in an iteration whose generation succeeded,
\* the Testing Agent only in an iteration whose build succeeded, and the
\* generator of iteration i only once the logs of iterations 1..i-1 are in
\* session.iterations.
C4_StageOrder ==
    [][ /\ (build_calls' # build_calls =>
                /\ iteration_log.iteration_number = iteration
                /\ iteration_log.code_gen_status = SUCCESS
                /\ build_calls < gen_calls)
        /\ (test_calls' # test_calls =>
                /\ iteration_log.iteration_number = iteration
                /\ iteration_log.build_status = SUCCESS
                /\ test_calls < build_calls)
        /\ (gen_calls' # gen_calls =>
                /\ Len(session.iterations) = iteration - 1
                /\ \A k \in 1..(iteration - 1) :
                      session.iterations[k].iteration_number = k) ]_vars

C4_Witness ==
    /\ gen_calls = 2 /\ build_calls = 2 /\ test_calls = 2
    /\ Len(session.iterations) = 2

\* C5: the repair loop of generate_code is bounded and stops on success: the
\* Code Generator is called at most max_iterations times, a run that has
\* stopped has gone through the finalize step, and once an iteration passed
\* its test no further stage is called and its log is the last one.
C5_BoundedLoop ==
    mode = "code" =>
        /\ gen_calls <= session.max_iterations
        /\ (pc \in {"returned", "raised"} => LoopEnded)
        /\ \A k \in 1..(Len(session.iterations) - 1) :
              session.iterations[k].test_status # SUCCESS
        /\ (session.success =>
                /\ pc \in {"finalize", "returned"}
                /\ LastLog.test_status = SUCCESS
                /\ gen_calls = Len(session.iterations))

\* C6: when every iteration of generate_code fails, the returned session has
\* success = false, status FAILED and exactly max_iterations logs, numbered
\* 1..max_iterations in order, each one a failed iteration.
C6_ExhaustedKeepsLogs ==
    (mode = "code" /\ Returned /\ ~session.success) =>
        /\ session.status = FAILED
        /\ Len(session.iterations) = session.max_iterations
        /\ \A k \in 1..Len(session.iterations) :
              /\ session.iterations[k].iteration_number = k
              /\ FAILED \in {session.iterations[k].code_gen_status,
                             session.iterations[k].build_status,
                             session.iterations[k].test_status}

C6_Witness ==
    /\ mode = "code" /\ Returned /\ ~session.success
    /\ session.max_iterations = 1
    /\ Len(session.iterations) = 1

\* C7: no exception raised inside a stage of an iteration (the progress
\* reporting done within it included) leaves generate_code or
\* generate_project: it is recorded on the iteration's log and the loop
\* advances.  (iteration_log.iteration_number >= 1: an iteration has begun.)
C7_NoExceptionEscapes ==
    ~(pc = "raised" /\ iteration_log.iteration_number >= 1)

\* C8: in generate_code the error_context handed to the Code Generator is
\* empty on iteration 1 and, on iteration i > 1, the retry context
\* synthesized from iteration i-1, whichever stage that one failed in.
C8_ContextFromPreviousIteration ==
    [][ (mode = "code" /\ gen_calls' # gen_calls) =>
            IF iteration = 1
            THEN last_context' = EmptyContext
            ELSE last_context'.iteration = iteration - 1 ]_vars

\* the latest iteration of the logs that failed in its build or test stage
LastStageFailure(iterations) ==
    LET failed == {k \in 1..Len(iterations) :
                      \/ iterations[k].build_status = FAILED
                      \/ iterations[k].test_status = FAILED}
    IN  IF failed = {} THEN 0
        ELSE CHOOSE k \in failed : \A j \in failed : j <= k

\* C8 (amended): the error_context handed to the Code Generator is the retry
\* context synthesized from the latest earlier iteration that failed in its
\* build or test stage, so from iteration i-1 when that one failed there, and
\* is empty when there is none; a failed generation leaves it as it was.
C8_ContextFromLastStageFailure ==
    [][ (mode = "code" /\ gen_calls' # gen_calls) =>
            LET k == LastStageFailure(session.iterations) IN
            IF k = 0
            THEN last_context' = EmptyContext
            ELSE last_context' =
                    [error_type |-> session.iterations[k].error_type,
                     root_cause |-> session.iterations[k].error_message,
                     iteration |-> k] ]_vars

C8_Witness ==
    /\ mode = "code" /\ gen_calls = 3
    /\ session.iterations[2].code_gen_status = FAILED
    /\ last_context.iteration = 1
    /\ session.iterations[1].test_status = FAILED

\* C9: in generate_project, when iteration i-1 failed at validation, build or
\* test, the generator call of iteration i receives a non-empty error
\* context.
C9_ProjectContextNonEmpty ==
    [][ ( /\ mode = "project" /\ gen_calls' # gen_calls
          /\ iteration > 1
          /\ Len(session.iterations) = iteration - 1
          /\ \/ session.iterations[iteration - 1].build_status = FAILED
             \/ session.iterations[iteration - 1].test_status = FAILED )
        => last_context' # EmptyContext ]_vars

\* C10: at return from generate_code, if some iteration log has error_type
\* MISSING_CREDENTIALS then session.missing_credentials is non-empty.
C10_MissingCredentialsPopulated ==
    (mode = "code" /\ Returned /\
        \E k \in 1..Len(session.iterations) :
            session.iterations[k].error_type = MISSING_CREDENTIALS)
    => session.missing_credentials # <<>>

\* ------------------------------------------- functions called on their own
\* Each function below is called once on arguments drawn from a bounded set;
\* the Orchestrator stays idle meanwhile.

orchestrator == <<mode, language, host, has_callback, enable_session_persistence, pc,
                  iteration, session, iteration_log, error_context, generated,
                  gen_calls, build_calls, test_calls, last_context, saved, test_run,
          metadata, saved_files>>

\* no entry point of the Orchestrator has been called
OrchestratorIdle ==
    /\ mode = "code"
    /\ language = "python"
    /\ host = [os_name |-> "posix", mvn_path |-> "mvn"]
    /\ has_callback = FALSE
    /\ enable_session_persistence = FALSE
    /\ pc = "returned"
    /\ iteration = 1
    /\ session = NewSession(1)
    /\ iteration_log = IterationLog(0)
    /\ error_context = EmptyContext
    /\ generated = NothingGenerated
    /\ gen_calls = 0
    /\ build_calls = 0
    /\ test_calls = 0
    /\ last_context = EmptyContext
    /\ saved = 0
    /\ test_run = NoTestRun
    /\ metadata = <<>>
    /\ saved_files = <<>>

\* Longest error message, in lines, handed to the Error Parser on its own.
MaxErrorLines == 2

\* lines of the outputs of the interpreter, the installer, the compiler and
\* the build tool
ErrorLines ==
    {"ModuleNotFoundError: No module named 'requestz'",
     "NameError: name 'x' is not defined",
     "HTTP Error 401: Invalid API key",
     "[ERROR] Failed to transfer artifact: authentication failed for repository",
     "Main.java:3 - ';' expected",
     "Syntax error at line 1: invalid syntax",
     "Exception in thread main java.lang.ClassNotFoundException: Helper",
     "hello"}

\* the optional code argument of parse_error: None or a generated source
ParsedCodes ==
    {NoneStr,
     "print('hello')",
     "api_key = 'YOUR_API_KEY_HERE'",
     "requests.get('https://api.openweathermap.org/data/2.5/weather')"}

ParseErrorCalls ==
    {[fn |-> "parse_error", error_message |-> m, language |-> l, code |-> c] :
        m \in SeqsUpTo(ErrorLines, MaxErrorLines), l \in Languages, c \in ParsedCodes}

\* ErrorParser.parse_error(error_message, language, code)
ParseErrorReturns ==
    /\ call.fn = "parse_error"
    /\ ret = <<>>
    /\ ret' = <<ParseError(call.error_message, call.language, call.code)>>
    /\ UNCHANGED <<call, temp_paths, orchestrator, concurrent>>

SplitCalls ==
    {[fn |-> f, response |-> r, language |-> l] :
        f \in {"generate_code", "generate_project_code"},
        r \in SeqsUpTo(ResponseLines, MaxResponseLines), l \in Languages}
    \cup
    {[fn |-> f, response |-> r, language |-> "java"] :
        f \in {"generate_code", "generate_project_code"},
        r \in SeqsUpTo(JavaResponseLines, MaxResponseLines)}

\* CodeGeneratorAgent.generate_code on the response of the LLM
GenerateCodeReturns ==
    /\ call.fn = "generate_code"
    /\ ret = <<>>
    /\ ret' = <<[success |-> TRUE, files |-> SplitCode(call.response, call.language)]>>
    /\ UNCHANGED <<call, temp_paths, orchestrator, concurrent>>

\* CodeGeneratorAgent.generate_project_code on the response of the LLM:
\* `if not files` is the failure to parse the response
GenerateProjectCodeReturns ==
    /\ call.fn = "generate_project_code"
    /\ ret = <<>>
    /\ LET files == SplitProject(call.response, call.language)
       IN  ret' = <<[success |-> files # <<>>, files |-> files]>>
    /\ UNCHANGED <<call, temp_paths, orchestrator, concurrent>>

ExtractDependenciesCalls ==
    {[fn |-> "_extract_dependencies", code |-> c, language |-> l] :
        c \in SeqsUpTo(SourceLines, MaxSourceLines), l \in Languages}

\* CodeGeneratorAgent._extract_dependencies(code, language)
ExtractDependenciesReturns ==
    /\ call.fn = "_extract_dependencies"
    /\ ret = <<>>
    /\ ret' = <<ExtractDependencies(call.code, call.language)>>
    /\ UNCHANGED <<call, temp_paths, orchestrator, concurrent>>

\* the programs handed to the Build Agent and to the Testing Agent
ToolCodes(lang) ==
    IF lang = "python"
    THEN {"print('hello')", "api_key = 'YOUR_API_KEY_HERE'", "def f(:"}
    ELSE {"public class Main {}", "class Main {}",
          "public class Main { String api_key = 'YOUR_API_KEY_HERE'; }"}

AnalyzeAndBuildCalls ==
    UNION {{[fn |-> "analyze_and_build", code |-> c, language |-> l, dependencies |-> d,
             host |-> h, proc |-> p] :
                c \in ToolCodes(l), d \in {<<>>, <<"requests">>, <<"os", "utils">>},
                h \in Hosts, p \in BuildRuns(l)} : l \in Languages}

\* BuildAgent.analyze_and_build(code, language, dependencies)
AnalyzeAndBuildReturns ==
    /\ call.fn = "analyze_and_build"
    /\ ret = <<>>
    /\ LET built == AnalyzeAndBuild(call.code, call.language, call.dependencies,
                                    call.host, call.proc)
       IN  /\ ret' = <<built.result>>
           /\ temp_paths' = temp_paths \cup built.left
    /\ UNCHANGED <<call, orchestrator, concurrent>>

ProjectFiles ==
    {<<>>,
     <<[filename |-> "README.md", code |-> "# demo"]>>,
     <<[filename |-> "src/main/java/Main.java", code |-> "public class Main {}"]>>}

BuildJavaProjectCalls ==
    {[fn |-> "_build_java_project", files |-> f, host |-> h, proc |-> p] :
        f \in ProjectFiles, h \in Hosts, p \in MavenRuns}

\* BuildAgent._build_java_project(files, dependencies, root_dir)
BuildJavaProjectReturns ==
    /\ call.fn = "_build_java_project"
    /\ ret = <<>>
    /\ LET built == BuildJavaProject(call.files, call.host, call.proc)
       IN  /\ ret' = <<built.result>>
           /\ temp_paths' = temp_paths \cup built.left
    /\ UNCHANGED <<call, orchestrator, concurrent>>

ExecuteCalls ==
    {[fn |-> "execute_python_code", code |-> "print('hello')", host |-> h, run |-> r] :
        h \in Hosts, r \in TestRuns("python")}
    \cup {[fn |-> "execute_java_code", code |-> "public class Main {}", host |-> h, run |-> r] :
            h \in Hosts, r \in TestRuns("java")}

\* execute_python_code(code, runtime_credentials)
ExecutePythonCodeReturns ==
    /\ call.fn = "execute_python_code"
    /\ ret = <<>>
    /\ LET executed == ExecutePythonCode(call.code, call.host, call.run.exec)
       IN  /\ ret' = <<executed.result>>
           /\ temp_paths' = temp_paths \cup executed.left
    /\ UNCHANGED <<call, orchestrator, concurrent>>

\* execute_java_code(code, classname, runtime_credentials)
ExecuteJavaCodeReturns ==
    /\ call.fn = "execute_java_code"
    /\ ret = <<>>
    /\ LET executed == ExecuteJavaCode(call.code, call.host, call.run.compile, call.run.exec)
       IN  /\ ret' = <<executed.result>>
           /\ temp_paths' = temp_paths \cup executed.left
    /\ UNCHANGED <<call, orchestrator, concurrent>>

\* runs that exit with 0 and print nothing, or print warnings to stderr
QuietRuns ==
    {[compile |-> Completed(0, <<>>, <<>>), exec |-> e] :
        e \in {Completed(0, <<>>, <<>>),
               Completed(0, <<"hello">>, <<"WARNING: retrying">>),
               Completed(0, <<"hello">>, <<"DeprecationWarning: the error handler is deprecated">>)}}

ExecuteAndTestCalls ==
    UNION {{[fn |-> "execute_and_test", code |-> c, language |-> l, host |-> h,
             run |-> r, verdict |-> v] :
                c \in ToolCodes(l), h \in Hosts, r \in TestRuns(l) \cup QuietRuns,
                v \in Verdicts} :
           l \in Languages}

\* TestingAgent.execute_and_test(requirements, code, language)
ExecuteAndTestReturns ==
    /\ call.fn = "execute_and_test"
    /\ ret = <<>>
    /\ LET tested == ExecuteAndTest(call.code, call.language, call.host, call.run, call.verdict)
       IN  /\ ret' = <<tested.result>>
           /\ temp_paths' = temp_paths \cup tested.left
    /\ UNCHANGED <<call, orchestrator, concurrent>>

\* Most session files listed at once, and most iterations in a stored session.
MaxStoredSessions == 2
MaxStoredIterations == 2

\* error_type values found in session files: null, values of ErrorType, the
\* empty string, and values of other versions of the enumeration
StoredErrorTypes == {NoErrorType, LOGIC, BUILD, "", "timeout", "LOGIC"}

\* iteration logs as model_dump_json wrote them
StoredIterations ==
    UNION {[1..n -> {[IterationLog(1) EXCEPT !.error_type = et, !.error_message = m] :
                        et \in StoredErrorTypes, m \in {NoneStr, "hello"}}] :
           n \in 0..MaxStoredIterations}

\* contents of metadata.json: a GenerationSession or a ProjectSession
StoredSessions ==
    {ModelDumpJson([NewSession(MaxStoredIterations) EXCEPT
                        !.created_at = t, !.status = FAILED, !.iterations = its,
                        !.current_iteration = Len(its),
                        !.total_execution_time_set = TRUE,
                        !.project_name = IF m = "project" THEN "demo" ELSE ""], m) :
        t \in 1..2, its \in StoredIterations, m \in {"code", "project"}}

\* sessions whose iterations carry one error_type each, for the listings
ListedSessions ==
    {d \in StoredSessions : Len(d.iterations) = 1 /\ d.iterations[1].error_message = NoneStr}

LoadSessionCalls ==
    {[fn |-> "load_session", file |-> f] : f \in {<<>>} \cup {<<d>> : d \in StoredSessions}}

\* OrchestratorAgent.load_session(session_id)
LoadSessionReturns ==
    /\ call.fn = "load_session"
    /\ ret = <<>>
    /\ ret' = <<LoadSession(call.file)>>
    /\ UNCHANGED <<call, temp_paths, orchestrator, concurrent>>

ListSessionsCalls ==
    {[fn |-> "list_sessions", store |-> st] : st \in SeqsUpTo(ListedSessions, MaxStoredSessions)}

\* OrchestratorAgent.list_sessions()
ListSessionsReturns ==
    /\ call.fn = "list_sessions"
    /\ ret = <<>>
    /\ ret' = <<ListSessions(call.store)>>
    /\ UNCHANGED <<call, temp_paths, orchestrator, concurrent>>

\* Longest Java source, in lines, handed to the namespace rewrite on its own.
MaxImportLines == 2

ConvertCalls ==
    {[fn |-> "_convert_javax_to_jakarta", code |-> c] :
        c \in SeqsUpTo({imp.line : imp \in ImportLines} \cup {"public class A {", "}"},
                       MaxImportLines)}

\* CodeGeneratorAgent._convert_javax_to_jakarta(code)
ConvertJavaxToJakartaReturns ==
    /\ call.fn = "_convert_javax_to_jakarta"
    /\ ret = <<>>
    /\ ret' = <<ConvertJavaxToJakarta(call.code)>>
    /\ UNCHANGED <<call, temp_paths, orchestrator, concurrent>>

\* Most files in a project handed to the Project Validator on its own.
MaxProjectFiles == 2

\* the files of a generated Java project
ValidatedFiles ==
    {[filename |-> n, language |-> "java", code |-> c] :
        n \in {"src/main/java/com/x/A.java", "app/src/main/java/com/x/A.java", "Main.java"},
        c \in {<<"package com.x;", "public class A {", "}">>,
               <<"package com.y;", "public class A {", "}">>,
               <<"package x;", "public class A {", "}">>,
               <<"public class A {", "}">>}}

ValidateProjectCalls ==
    {[fn |-> "validate_project", files |-> f, language |-> l] :
        f \in SeqsUpTo(ValidatedFiles, MaxProjectFiles), l \in Languages}

\* ProjectValidatorAgent.validate_project(files, language)
ValidateProjectReturns ==
    /\ call.fn = "validate_project"
    /\ ret = <<>>
    /\ ret' = <<ValidateProjectFiles(call.files, call.language)>>
    /\ UNCHANGED <<call, temp_paths, orchestrator, concurrent>>

\* ---- the calls together
\* (UNITS)
Calls == ParseErrorCalls \cup SplitCalls \cup ExtractDependenciesCalls \cup AnalyzeAndBuildCalls \cup BuildJavaProjectCalls \cup ExecuteCalls \cup ExecuteAndTestCalls \cup LoadSessionCalls \cup ListSessionsCalls \cup ConvertCalls \cup ValidateProjectCalls

UnitInit ==
    /\ call \in Calls
    /\ ret = <<>>
    /\ temp_paths = {}
    /\ ConcurrentIdle
    /\ OrchestratorIdle

UnitNext ==
    \/ ParseErrorReturns
    \/ GenerateCodeReturns
    \/ GenerateProjectCodeReturns
    \/ ExtractDependenciesReturns
    \/ AnalyzeAndBuildReturns
    \/ BuildJavaProjectReturns
    \/ ExecutePythonCodeReturns
    \/ ExecuteJavaCodeReturns
    \/ ExecuteAndTestReturns
    \/ LoadSessionReturns
    \/ ListSessionsReturns
    \/ ConvertJavaxToJakartaReturns
    \/ ValidateProjectReturns

UnitSpec == UnitInit /\ [][UnitNext]_vars

\* the call of fn has returned
Called(fn) == call.fn = fn /\ ret # <<>>

\* C11: for every result of ErrorParser.parse_error, over all messages,
\* languages and optional code arguments, error_type is MISSING_CREDENTIALS
\* if and only if the returned missing_credentials list is non-empty.
C11_CredentialsIffType ==
    Called("parse_error") =>
        (ret[1].error_type = MISSING_CREDENTIALS
            <=> ret[1].missing_credentials # <<>>)

\* C12: in every bundle returned by the Code Generator (generate_code and
\* generate_project_code, on every branch of the Response Splitter) no two
\* file artifacts share a filename.
C12_UniqueFilenames ==
    (Called("generate_code") \/ Called("generate_project_code")) =>
        \A j, k \in 1..Len(ret[1].files) :
            ret[1].files[j].filename = ret[1].files[k].filename => j = k

\* C13: when a response holds several FILE markers with the same path, the
\* body kept for that path in the bundle of generate_project_code is the body
\* of the last such marker, also when that body is empty or only a fence.
C13_LastMarkerWins ==
    (Called("generate_project_code") /\ ret[1].success) =>
        LET text == call.response
            markers == {i \in 1..Len(text) : MarkerPathOfProject(text[i]) # NoneStr}
            SamePath(i, j) == MarkerPathOfProject(text[i]) = MarkerPathOfProject(text[j])
        IN  \A i \in markers :
                ( /\ \E j \in markers : j < i /\ SamePath(i, j)
                  /\ ~\E j \in markers : j > i /\ SamePath(i, j) )
                => \E k \in 1..Len(ret[1].files) :
                      /\ ret[1].files[k].filename = MarkerPathOfProject(text[i])
                      /\ ret[1].files[k].code =
                            StripClosingFence(StripOpeningFence(MarkerBody(text, markers, i)))

\* C14: for every Python source text, the list returned by the Dependency
\* Extractor holds no standard-library name and no project-internal name,
\* names from a REQUIRES: directive and dotted names reduced to their top
\* segment included.
C14_NoStdlibNoInternal ==
    (Called("_extract_dependencies") /\ call.language = "python") =>
        \A k \in 1..Len(ret[1]) :
            ret[1][k] \notin builtin_modules \cup project_internals

\* C15: every temp directory and temp file created by one invocation of the
\* Build Agent's JVM builds (single-file and multi-file) or of the execution
\* tools of the Testing Agent is gone when the invocation returns, whatever
\* the exit path.
C15_TempRemoved ==
    (\/ Called("analyze_and_build") /\ call.language = "java"
     \/ Called("_build_java_project")
     \/ Called("execute_python_code")
     \/ Called("execute_java_code"))
    => temp_paths = {}

\* the process of the called stage was started and exceeded its timeout
BuildTimedOut ==
    /\ call.proc.kind = "TimeoutExpired"
    /\ IF call.language = "python"
       THEN /\ "syntax_error" \notin CodePatterns(call.code)
            /\ \E k \in 1..Len(call.dependencies) :
                    call.dependencies[k] \notin project_internals \cup stdlib_modules
       ELSE /\ "public_class" \in CodePatterns(call.code)
            /\ call.host.mvn_path # NoneStr

TestTimedOut ==
    IF call.language = "python"
    THEN call.host.os_name = "nt" /\ call.run.exec.kind = "TimeoutExpired"
    ELSE /\ "public_class" \in CodePatterns(call.code)
         /\ call.host.mvn_path # NoneStr
         /\ \/ call.run.compile.kind = "TimeoutExpired"
            \/ /\ call.run.compile.kind = "completed"
               /\ call.run.compile.returncode = 0
               /\ call.run.exec.kind = "TimeoutExpired"

\* a line of the text tells the limit that was exceeded
NamesLimit(text) ==
    \E k \in 1..Len(text) :
        text[k] \in {ExecutionTimedOut,
                     "Command 'mvn clean compile' timed out after 120 seconds",
                     "Command '['python', '-m', 'pip', 'install', 'requests']' timed out after 300 seconds"}

\* C16: when the installer, the JVM compilation, the interpreter or the JVM
\* execution exceeds its timeout, the stage fails, its error names the
\* exceeded limit, and the error type the Orchestrator records for the
\* iteration is RUNTIME or BUILD.
C16_TimeoutReported ==
    /\ (Called("analyze_and_build") /\ BuildTimedOut) =>
            /\ ret[1].status # "success"
            /\ NamesLimit(ret[1].errors)
            /\ ParseError(ret[1].errors, call.language, call.code).error_type
                    \in {RUNTIME, BUILD}
    /\ (Called("execute_and_test") /\ TestTimedOut) =>
            /\ ~TestPassed(ret[1])
            /\ NamesLimit(ret[1].issues_found)
            /\ ParseError(ret[1].issues_found \o ret[1].execution_logs,
                          call.language, call.code).error_type \in {RUNTIME, BUILD}

\* generate_code runs for Java on a host where Maven cannot be located
ToolNotFound == mode = "code" /\ language = "java" /\ host.mvn_path = NoneStr

\* the build failed with the "not found" error and a fix that adds the tool
\* to PATH
FailedNotFound(log) ==
    /\ log.build_status = FAILED
    /\ log.build_result.errors =
            <<"Maven (mvn) not found in system PATH or common installation locations">>
    /\ \E k \in 1..Len(log.build_result.suggested_fixes) :
            log.build_result.suggested_fixes[k] =
                "1. Add Maven bin directory to system PATH: C:\\Program Files\\apache-maven-3.9.11\\bin"

\* C17: when the JVM build tool cannot be located, every iteration of
\* generate_code whose generation succeeded ends with build_status = FAILED
\* carrying the "not found" error and a suggested fix that adds the tool to
\* PATH, the Testing Agent is never invoked, and the session returns
\* success = false.
C17_ToolNotFound ==
    ToolNotFound =>
        /\ \A k \in 1..Len(session.iterations) :
                session.iterations[k].code_gen_status = SUCCESS
                    => FailedNotFound(session.iterations[k])
        /\ test_calls = 0
        /\ Returned => ~session.success

\* C17, amended: the "not found" error is carried by the iterations whose
\* generated code declares a public class; every iteration whose generation
\* succeeded ends with build_status = FAILED, the Testing Agent is never
\* invoked, and the session returns success = false.
C17_ToolNotFoundAfterClassCheck ==
    ToolNotFound =>
        /\ \A k \in 1..Len(session.iterations) :
                session.iterations[k].code_gen_status = SUCCESS
                    => /\ session.iterations[k].build_status = FAILED
                       /\ "public_class" \in CodePatterns(session.iterations[k].generated_code)
                            => FailedNotFound(session.iterations[k])
        /\ test_calls = 0
        /\ Returned => ~session.success

C17_Witness ==
    /\ ToolNotFound
    /\ Returned
    /\ Len(session.iterations) = session.max_iterations
    /\ \A k \in 1..Len(session.iterations) : FailedNotFound(session.iterations[k])

\* C18: first-shot success.  When in iteration 1 the generator returns
\* valid Python code with no external imports, the build succeeds, and
\* running the code would exit 0 with output that the judge accepts,
\* generate_code ends with success = true, exactly one iteration log and an
\* empty dependency list, on every host OS.
C18_FirstShotSuccess ==
    ( /\ mode = "code" /\ language = "python"
      /\ gen_calls = 1 /\ test_calls = 1
      /\ generated.dependencies = <<>>
      /\ test_run.run.exec.kind = "completed" /\ test_run.run.exec.returncode = 0
      /\ test_run.verdict.status = "pass" )
    => /\ session.success
       /\ Len(session.iterations) = 1
       /\ session.final_code.dependencies = <<>>

\* the text names the package the installer did not find
NamesMissingPackage(text) ==
    text \in {"Missing Python package: requestz",
              "Failed to install dependencies: ERROR: No matching distribution found for requestz"}

\* the installer returned nonzero for a nonexistent package
InstallerMissedPackage(log) ==
    /\ log.build_status = FAILED
    /\ log.build_result.errors =
        <<"Failed to install dependencies: ERROR: No matching distribution found for requestz">>

\* C19: when the build stage of a Python iteration fails because the
\* installer returned nonzero for a nonexistent package, the iteration's
\* error is classified BUILD, and the retry context handed to the next
\* generation names the missing package.
C19_MissingPackageIsBuild ==
    (mode = "code" /\ language = "python") =>
        \A k \in 1..Len(session.iterations) :
            InstallerMissedPackage(session.iterations[k]) =>
                /\ session.iterations[k].error_type = BUILD
                /\ (k = Len(session.iterations) /\ gen_calls = k + 1)
                        => NamesMissingPackage(last_context.root_cause)

\* C20: save/load round trip.  For every session the Orchestrator persisted
\* (a GenerationSession or a ProjectSession), load_session returns a session
\* whose observable fields equal those saved, project_name,
\* project_template, files and all_dependencies of a project session
\* included.
C20_SaveLoadRoundTrip ==
    (Returned /\ metadata # <<>>) =>
        LET loaded == LoadSession(metadata)[1]
        IN  \A f \in DOMAIN ModelDumpJson(session, mode) :
                f \in DOMAIN loaded /\ loaded[f] = session[f]

\* a stored error_type that is non-empty and outside the five kinds of ErrorType
UnknownErrorType(et) == et \notin {NoErrorType, ""} /\ et \notin allowed_error_types

\* the stored file has no empty-string error_type
NoEmptyErrorType(data) ==
    \A k \in 1..Len(data.iterations) : data.iterations[k].error_type # ""

\* C21: load_session and list_sessions rewrite every stored error_type that
\* is non-empty and outside the five known kinds to LOGIC before validation,
\* leave every other field of the iteration and of the GenerationSession as
\* stored, and the load succeeds: load_session returns the session and
\* list_sessions lists it.
C21_UnknownErrorTypeRewritten ==
    /\ (Called("load_session") /\ call.file # <<>> /\ NoEmptyErrorType(call.file[1])) =>
        LET data == call.file[1] IN
        /\ ret[1] # <<>>
        /\ \A f \in GenerationSessionFields \ {"iterations"} : ret[1][1][f] = data[f]
        /\ Len(ret[1][1].iterations) = Len(data.iterations)
        /\ \A k \in 1..Len(data.iterations) :
            /\ ret[1][1].iterations[k].error_type =
                 IF UnknownErrorType(data.iterations[k].error_type)
                 THEN LOGIC ELSE data.iterations[k].error_type
            /\ \A f \in DOMAIN data.iterations[k] \ {"error_type"} :
                 ret[1][1].iterations[k][f] = data.iterations[k][f]
    /\ (Called("list_sessions") /\ \A i \in 1..Len(call.store) : NoEmptyErrorType(call.store[i])) =>
        Len(ret[1]) = Len(call.store)

C21_Witness ==
    /\ Called("load_session")
    /\ call.file # <<>>
    /\ Len(call.file[1].iterations) = 2
    /\ call.file[1].iterations[1].error_type = "timeout"
    /\ call.file[1].iterations[2].error_type = BUILD
    /\ ret[1] # <<>>
    /\ ret[1][1].iterations[1].error_type = LOGIC
    /\ ret[1][1].iterations[2].error_type = BUILD

\* C22: in every run of generate_code and generate_project the session's
\* persistence directory is written at most once and only after the
\* iteration loop has ended: nothing is written while an iteration is in
\* progress, and nothing at all when persistence is disabled.
C22_PersistedOnceAtTermination ==
    /\ saved <= 1
    /\ (saved = 0) = (metadata = <<>>)
    /\ saved = 1 => (Returned /\ LoopEnded /\ enable_session_persistence)
    /\ pc \in {"scaffold", "loop", "gen", "validate", "build", "test", "finalize"} => saved = 0
    /\ ~enable_session_persistence => saved = 0

C22_Witness ==
    /\ Returned
    /\ saved = 1
    /\ metadata # <<>>
    /\ Len(session.iterations) = 2

\* -------------------------------------------------------- sessions together
\* Two entry points run at once, each in its own process with its own
\* OrchestratorAgent; what is followed is where each of them reads and writes.

\* the processes running an entry point at once
Processes == {1, 2}

\* str(uuid.uuid4())[:8]
SessionIds == {"a1b2c3d4", "e5f6a7b8"}

ProjectNames == {"demo", "shop"}

\* keys of PROJECT_TEMPLATES, and a name that is not one
TemplateNames == {"fastapi", "angular"}

\* filesystem locations
LogFile == [root |-> "logs", name |-> "orchestrator.log"]
ProjectRoot(project_name) == [root |-> "outputs/generated_code", name |-> project_name]
SessionDir(session_id) == [root |-> "outputs/sessions", name |-> session_id]
\* tempfile.mkdtemp() and NamedTemporaryFile: a name no other process holds
TempDir(p) == [root |-> "tmp", name |-> IF p = 1 THEN "tmp_k3x9" ELSE "tmp_w7q2"]

\* settings.session_storage_path
session_storage_path == "outputs/sessions"

\* get_template(template_name): None unless the name is a key
TemplateFound(template_name) == template_name \in {"fastapi", "spring_boot", "python_package"}

\* the calls that may run at once: generate_code(...) and
\* generate_project(project_name, project_template, ...)
EntryCalls ==
    {[entry |-> "generate_code", project_name |-> "", project_template |-> "",
      session_id |-> id, persist |-> b, max_iterations |-> n, at |-> "start", i |-> 1] :
        id \in SessionIds, b \in BOOLEAN, n \in 1..MaxIter}
    \cup
    {[entry |-> "generate_project", project_name |-> pn, project_template |-> t,
      session_id |-> id, persist |-> b, max_iterations |-> n, at |-> "start", i |-> 1] :
        pn \in ProjectNames, t \in TemplateNames, id \in SessionIds, b \in BOOLEAN,
        n \in 1..MaxIter}

Touch(p, path) == accessed' = accessed \cup {[proc |-> p, path |-> path]}

\* the session is created and "Starting ..." goes to the log file
SessionStarts(p) ==
    /\ running[p].at = "start"
    /\ Touch(p, LogFile)
    /\ running' = [running EXCEPT ![p].at =
            IF running[p].entry = "generate_project" THEN "scaffold" ELSE "iterate"]
    /\ UNCHANGED <<unit, orchestrator, log_handler>>

\* generate_project, step 1: scaffold_project(project_name, template_name,
\* root_dir=None) makes outputs/generated_code/<project_name>, writes the
\* template's files into it and reads the tree back
SessionScaffolds(p) ==
    /\ running[p].at = "scaffold"
    /\ IF ~TemplateFound(running[p].project_template)
       THEN /\ running' = [running EXCEPT ![p].at = "returned"]
            /\ UNCHANGED accessed
       ELSE /\ running' = [running EXCEPT ![p].at = "iterate"]
            /\ Touch(p, ProjectRoot(running[p].project_name))
    /\ UNCHANGED <<unit, orchestrator, log_handler>>

\* one iteration: the Build Agent and the Testing Agent work in temp
\* directories (none when generation fails); on success the loop breaks
SessionIterates(p) ==
    /\ running[p].at = "iterate"
    /\ \E generated_ok \in BOOLEAN, passed \in BOOLEAN :
        /\ IF generated_ok THEN Touch(p, TempDir(p)) ELSE UNCHANGED accessed
        /\ running' = [running EXCEPT
                ![p].at = IF (generated_ok /\ passed) \/ ~LoopHasNext(running[p].i + 1, running[p].max_iterations)
                          THEN "finalize" ELSE "iterate",
                ![p].i = IF generated_ok /\ passed THEN @ ELSE @ + 1]
    /\ UNCHANGED <<unit, orchestrator, log_handler>>

\* after the loop: _save_session / _save_project_session write
\* <session_storage_path>/<session_id> when persistence is enabled
SessionFinalizes(p) ==
    /\ running[p].at = "finalize"
    /\ IF Persists(running[p].persist)
       THEN Touch(p, SessionDir(running[p].session_id))
       ELSE UNCHANGED accessed
    /\ running' = [running EXCEPT ![p].at = "returned"]
    /\ UNCHANGED <<unit, orchestrator, log_handler>>

ConcurrentInit ==
    /\ running \in [Processes -> EntryCalls]
    /\ accessed = {}
    /\ threads = <<>>
    /\ handler = 0
    /\ handler_lock = 0
    /\ handlers = <<>>
    /\ call = NoCall
    /\ ret = <<>>
    /\ temp_paths = {}
    /\ OrchestratorIdle

ConcurrentNext ==
    \/ \E p \in Processes : SessionStarts(p)
    \/ \E p \in Processes : SessionScaffolds(p)
    \/ \E p \in Processes : SessionIterates(p)
    \/ \E p \in Processes : SessionFinalizes(p)

ConcurrentSpec == ConcurrentInit /\ [][ConcurrentNext]_vars

\* C23: two sessions running at once, in any interleaving and also when both
\* are generate_project calls with the same project_name, never read or
\* write a common filesystem location other than the persistence directory,
\* and inside it each writes only its own <session_id> subdirectory.
C23_ShareOnlyPersistenceDir ==
    /\ \A a, b \in accessed :
        (a.proc # b.proc /\ a.path = b.path) => a.path.root = session_storage_path
    /\ \A a \in accessed :
        a.path.root = session_storage_path => a.path.name = running[a.proc].session_id

\* C24: every TestResult returned by TestingAgent.execute_and_test has
\* status pass or fail, also when the status comes from the JSON answer of
\* the LLM judge, and so has every test result the Orchestrator logs.
C24_StatusPassOrFail ==
    /\ Called("execute_and_test") => ret[1].status \in {"pass", "fail"}
    /\ \A k \in 1..Len(session.iterations) :
        session.iterations[k].test_result # NoTestResult =>
            session.iterations[k].test_result.status \in {"pass", "fail"}

\* the body holds an import of a legacy enterprise package
HasLegacyImport(code) ==
    \E i \in 1..Len(code) : \E imp \in ImportLines :
        imp.line = code[i] /\ imp.package \in conversions

\* C25: every Java file body in a bundle returned by the Code Generator, from
\* generate_code and from generate_project_code, through FILE markers and
\* through the fenced-block fallback, has had both post-processors applied:
\* it holds no import of a legacy package and at least as many closing
\* braces as opening ones.
C25_JavaBodiesPostProcessed ==
    ((Called("generate_code") \/ Called("generate_project_code")) /\ call.language = "java") =>
        \A k \in 1..Len(ret[1].files) :
            IsJavaFile(ret[1].files[k].filename) =>
                /\ ~HasLegacyImport(ret[1].files[k].code)
                /\ CountBraces(ret[1].files[k].code, "{") <= CountBraces(ret[1].files[k].code, "}")

\* imports of packages that ship with the JDK
JdkImports ==
    {"import javax.sql.DataSource;", "import javax.naming.InitialContext;",
     "import javax.annotation.processing.Processor;",
     "import javax.transaction.xa.XAResource;", "import java.util.List;"}

\* C26: the namespace rewrite leaves every import of a JDK-built-in javax
\* package as it is (javax.sql, javax.naming, and JDK packages nested under
\* a listed prefix such as javax.annotation.processing and
\* javax.transaction.xa); only imports of the legacy enterprise packages
\* are rewritten to jakarta.
C26_JdkImportsKept ==
    Called("_convert_javax_to_jakarta") =>
        /\ Len(ret[1]) = Len(call.code)
        /\ \A i \in 1..Len(call.code) :
            /\ call.code[i] \in JdkImports => ret[1][i] = call.code[i]
            /\ ret[1][i] # call.code[i] =>
                 \E imp \in ImportLines : imp.line = call.code[i] /\ imp.package \in conversions

\* the package the directory of a file in the main-source tree stands for;
\* NoneStr for a file outside src/main/java
DirectoryPackage(filename) ==
    IF filename \in {"src/main/java/com/x/A.java", "app/src/main/java/com/x/A.java"}
    THEN "com.x" ELSE NoneStr

\* C27: for every Java file of a project that lies in the main-source tree,
\* its path given relative (src/main/java/...) or with a leading directory,
\* whose declared package does not match its directory, the Project
\* Validator reports an error and validate_project returns success = false.
C27_PackageMismatchReported ==
    (Called("validate_project") /\ call.language = "java") =>
        \A k \in 1..Len(call.files) :
            LET f == call.files[k] IN
            (/\ DirectoryPackage(f.filename) # NoneStr
             /\ DeclaredPackage(f.code) # NoneStr
             /\ DeclaredPackage(f.code) # DirectoryPackage(f.filename)) =>
                /\ ~ret[1].success
                /\ \E e \in 1..Len(ret[1].errors) :
                    ret[1].errors[e] = "Java file " \o f.filename \o " package '"
                                       \o DeclaredPackage(f.code) \o "' doesn't match path"

\* ------------------------------------------------------ StreamlitLogHandler
\* Threads call get_streamlit_log_handler and the methods of the handler it
\* returns, in any interleaving.  A with-statement is two steps: the lock is
\* acquired, then the body runs and the lock is released.

\* max_logs of StreamlitLogHandler.__init__: the maxlen of the deque
max_logs == 2

\* Most calls one thread makes.
MaxCalls == 3

Threads == {1, 2}

\* StreamlitLogHandler.__init__: an empty deque, a free RLock, enabled.  The
\* fields appended and ever are not in the program: appended is the
\* records appended since the latest clear(), in the order the appends took
\* effect, and ever is the records appended at any time.
NewHandler ==
    [logs |-> <<>>, lock |-> 0, enabled |-> TRUE, appended |-> <<>>, ever |-> {}]

\* a thread between two calls; done is the records whose emit has returned
IdleThread ==
    [at |-> "idle", calls |-> 0, got |-> 0, record |-> <<>>, n |-> <<>>,
     seen |-> <<>>, count |-> 0, done |-> {}]

\* threading.Lock: free or not, whoever asks (mutant: the lock excludes no one)
LockFreeForAll(holder, t) == TRUE

\* threading.Lock: acquired when no thread holds it
LockFree(holder, t) == holder = 0

\* threading.RLock: the holder may acquire it again
RLockFree(holder, t) == holder \in {0, t}

\* deque.append on a deque with maxlen: the oldest entry leaves a full deque
DequeAppend(logs, entry, maxlen) ==
    IF Len(logs) < maxlen THEN Append(logs, entry) ELSE Append(Tail(logs), entry)

\* list(self.logs)[-n:]: the last n entries, and the whole list for n = 0
LastOf(logs, n) ==
    IF n = 0 \/ n >= Len(logs) THEN logs ELSE SubSeq(logs, Len(logs) - n + 1, Len(logs))

\* the body of get_logs; the argument is <<>> for None and <<n>> for n
GetLogs(logs, n) ==
    IF n = <<>> THEN logs
    ELSE IF Len(logs) > 0 THEN LastOf(logs, n[1]) ELSE <<>>

CanCall(t) == threads[t].at = "idle" /\ threads[t].calls < MaxCalls

Returns(t, th) == [th EXCEPT !.at = "idle", !.calls = @ + 1]

\* get_streamlit_log_handler: "with _handler_lock:"
GetHandlerAcquires(t) ==
    /\ CanCall(t)
    /\ LockFree(handler_lock, t)
    /\ handler_lock' = t
    /\ threads' = [threads EXCEPT ![t].at = "gh_check"]
    /\ UNCHANGED <<handler, handlers>>
    /\ UNCHANGED <<unit, orchestrator, processes>>

\* "if _handler is None:"
GetHandlerChecks(t) ==
    /\ threads[t].at = "gh_check"
    /\ threads' = [threads EXCEPT ![t].at = IF handler = 0 THEN "gh_create" ELSE "gh_return"]
    /\ UNCHANGED <<handler, handler_lock, handlers>>
    /\ UNCHANGED <<unit, orchestrator, processes>>

\* "_handler = StreamlitLogHandler()" and its formatter
GetHandlerCreates(t) ==
    /\ threads[t].at = "gh_create"
    /\ handlers' = Append(handlers, NewHandler)
    /\ handler' = Len(handlers) + 1
    /\ threads' = [threads EXCEPT ![t].at = "gh_return"]
    /\ UNCHANGED handler_lock
    /\ UNCHANGED <<unit, orchestrator, processes>>

\* "return _handler", leaving the with-statement
GetHandlerReturns(t) ==
    /\ threads[t].at = "gh_return"
    /\ threads' = [threads EXCEPT ![t] = Returns(t, [@ EXCEPT !.got = handler])]
    /\ handler_lock' = IF handler_lock = t THEN 0 ELSE handler_lock
    /\ UNCHANGED <<handler, handlers>>
    /\ UNCHANGED <<unit, orchestrator, processes>>

\* emit(record): "if not self._enabled: return", then the message is
\* formatted; the record is the thread's next one
EmitFormats(t) ==
    /\ CanCall(t)
    /\ threads[t].got # 0
    /\ threads' = [threads EXCEPT ![t] =
            IF ~handlers[threads[t].got].enabled THEN Returns(t, @)
            ELSE [@ EXCEPT !.at = "emit_lock", !.record = <<t, threads[t].calls>>]]
    /\ UNCHANGED <<handler, handler_lock, handlers>>
    /\ UNCHANGED <<unit, orchestrator, processes>>

\* the handler of thread t with its lock held by t
Locked(t) == [handlers EXCEPT ![threads[t].got].lock = t]

\* "with self.lock:" of emit
EmitAcquires(t) ==
    /\ threads[t].at = "emit_lock"
    /\ RLockFree(handlers[threads[t].got].lock, t)
    /\ handlers' = Locked(t)
    /\ threads' = [threads EXCEPT ![t].at = "emit_append"]
    /\ UNCHANGED <<handler, handler_lock>>
    /\ UNCHANGED <<unit, orchestrator, processes>>

\* "self.logs.append({...})", leaving the with-statement
EmitAppends(t) ==
    /\ threads[t].at = "emit_append"
    /\ handlers' = [handlers EXCEPT ![threads[t].got] =
            [@ EXCEPT !.logs = DequeAppend(@, threads[t].record, max_logs),
                      !.appended = Append(@, threads[t].record),
                      !.ever = @ \cup {threads[t].record},
                      !.lock = 0]]
    /\ threads' = [threads EXCEPT ![t] = Returns(t, [@ EXCEPT !.done = @ \cup {threads[t].record}])]
    /\ UNCHANGED <<handler, handler_lock>>
    /\ UNCHANGED <<unit, orchestrator, processes>>

\* get_logs(n) is called
GetLogsCalled(t) ==
    /\ CanCall(t)
    /\ threads[t].got # 0
    /\ \E n \in {<<>>, <<0>>, <<1>>} :
        threads' = [threads EXCEPT ![t].at = "get_logs_lock", ![t].n = n]
    /\ UNCHANGED <<handler, handler_lock, handlers>>
    /\ UNCHANGED <<unit, orchestrator, processes>>

\* "with self.lock:" of get_logs
GetLogsAcquires(t) ==
    /\ threads[t].at = "get_logs_lock"
    /\ RLockFree(handlers[threads[t].got].lock, t)
    /\ handlers' = Locked(t)
    /\ threads' = [threads EXCEPT ![t].at = "get_logs"]
    /\ UNCHANGED <<handler, handler_lock>>
    /\ UNCHANGED <<unit, orchestrator, processes>>

\* "return list(self.logs)" or its last n
GetLogsReturns(t) ==
    /\ threads[t].at = "get_logs"
    /\ threads' = [threads EXCEPT ![t] =
            Returns(t, [@ EXCEPT !.seen = GetLogs(handlers[threads[t].got].logs, threads[t].n)])]
    /\ handlers' = [handlers EXCEPT ![threads[t].got].lock = 0]
    /\ UNCHANGED <<handler, handler_lock>>
    /\ UNCHANGED <<unit, orchestrator, processes>>

\* get_log_count() is called
GetLogCountCalled(t) ==
    /\ CanCall(t)
    /\ threads[t].got # 0
    /\ threads' = [threads EXCEPT ![t].at = "count_lock"]
    /\ UNCHANGED <<handler, handler_lock, handlers>>
    /\ UNCHANGED <<unit, orchestrator, processes>>

\* "with self.lock:" of get_log_count
GetLogCountAcquires(t) ==
    /\ threads[t].at = "count_lock"
    /\ RLockFree(handlers[threads[t].got].lock, t)
    /\ handlers' = Locked(t)
    /\ threads' = [threads EXCEPT ![t].at = "count"]
    /\ UNCHANGED <<handler, handler_lock>>
    /\ UNCHANGED <<unit, orchestrator, processes>>

\* "return len(self.logs)"
GetLogCountReturns(t) ==
    /\ threads[t].at = "count"
    /\ threads' = [threads EXCEPT ![t] =
            Returns(t, [@ EXCEPT !.count = Len(handlers[threads[t].got].logs)])]
    /\ handlers' = [handlers EXCEPT ![threads[t].got].lock = 0]
    /\ UNCHANGED <<handler, handler_lock>>
    /\ UNCHANGED <<unit, orchestrator, processes>>

\* clear_logs() is called
ClearLogsCalled(t) ==
    /\ CanCall(t)
    /\ threads[t].got # 0
    /\ threads' = [threads EXCEPT ![t].at = "clear_lock"]
    /\ UNCHANGED <<handler, handler_lock, handlers>>
    /\ UNCHANGED <<unit, orchestrator, processes>>

\* "with self.lock:" of clear_logs
ClearLogsAcquires(t) ==
    /\ threads[t].at = "clear_lock"
    /\ RLockFree(handlers[threads[t].got].lock, t)
    /\ handlers' = Locked(t)
    /\ threads' = [threads EXCEPT ![t].at = "clear"]
    /\ UNCHANGED <<handler, handler_lock>>
    /\ UNCHANGED <<unit, orchestrator, processes>>

\* "self.logs.clear()"
ClearLogsReturns(t) ==
    /\ threads[t].at = "clear"
    /\ handlers' = [handlers EXCEPT ![threads[t].got] =
            [@ EXCEPT !.logs = <<>>, !.appended = <<>>, !.lock = 0]]
    /\ threads' = [threads EXCEPT ![t] = Returns(t, @)]
    /\ UNCHANGED <<handler, handler_lock>>
    /\ UNCHANGED <<unit, orchestrator, processes>>



ThreadInit ==
    /\ threads = [t \in Threads |-> IdleThread]
    /\ handler = 0
    /\ handler_lock = 0
    /\ handlers = <<>>
    /\ running = <<>>
    /\ accessed = {}
    /\ call = NoCall
    /\ ret = <<>>
    /\ temp_paths = {}
    /\ OrchestratorIdle

ThreadNext ==
    \/ \E t \in Threads : GetHandlerAcquires(t)
    \/ \E t \in Threads : GetHandlerChecks(t)
    \/ \E t \in Threads : GetHandlerCreates(t)
    \/ \E t \in Threads : GetHandlerReturns(t)
    \/ \E t \in Threads : EmitFormats(t)
    \/ \E t \in Threads : EmitAcquires(t)
    \/ \E t \in Threads : EmitAppends(t)
    \/ \E t \in Threads : GetLogsCalled(t)
    \/ \E t \in Threads : GetLogsAcquires(t)
    \/ \E t \in Threads : GetLogsReturns(t)
    \/ \E t \in Threads : GetLogCountCalled(t)
    \/ \E t \in Threads : GetLogCountAcquires(t)
    \/ \E t \in Threads : GetLogCountReturns(t)
    \/ \E t \in Threads : ClearLogsCalled(t)
    \/ \E t \in Threads : ClearLogsAcquires(t)
    \/ \E t \in Threads : ClearLogsReturns(t)

ThreadSpec == ThreadInit /\ [][ThreadNext]_vars

YieldsFiles ==
    /\ gen_calls' = gen_calls + 1
    /\ generated'.files # <<>>

\* C29: in generate_project, session.files and session.all_dependencies are
\* assigned the bundle of every generation that yields files, before it is
\* validated, built or tested, and nothing else changes them up to the
\* return; a session that is saved is written with these files under files/
\* and in metadata.json, whether or not success is true.
C29_FilesAreLatestBundle ==
    /\ [][mode = "project" =>
            IF YieldsFiles
            THEN /\ session'.files = FileArtifacts(generated'.files)
                 /\ session'.all_dependencies = generated'.dependencies
            ELSE /\ session'.files = session.files
                 /\ session'.all_dependencies = session.all_dependencies]_vars
    /\ [](mode = "project" /\ pc = "returned" /\ saved > 0 =>
            /\ metadata[1].files = session.files
            /\ metadata[1].all_dependencies = session.all_dependencies
            /\ Len(saved_files) = Len(session.files)
            /\ \A i \in 1..Len(session.files) :
                  saved_files[i] = [path |-> "files/" \o session.files[i].filename,
                                    code |-> session.files[i].code])

\* a project that never passed is returned and saved with the files of its
\* latest bundle
C29_Witness ==
    /\ mode = "project"
    /\ pc = "returned"
    /\ ~session.success
    /\ session.files # <<>>
    /\ session.files = FileArtifacts(generated.files)
    /\ saved = 1
    /\ saved_files # <<>>

\* the scaffolding step of generate_project has just failed
ScaffoldFails ==
    /\ pc = "scaffold"
    /\ session'.status = FAILED
    /\ ~session'.success

\* C30: when scaffolding fails in generate_project the call returns at once
\* with success = false, status FAILED and no iteration log, without a call
\* of the Code Generator, the Build Agent or the Testing Agent, with
\* total_execution_time still 0 and with nothing saved, even when
\* persistence is enabled; nothing happens after the return.
C30_ScaffoldFailureReturnsUnsaved ==
    [][/\ ScaffoldFails =>
            /\ pc' = "returned"
            /\ session'.iterations = <<>>
            /\ gen_calls' = 0 /\ build_calls' = 0 /\ test_calls' = 0
            /\ ~session'.total_execution_time_set
            /\ saved' = 0 /\ metadata' = <<>> /\ saved_files' = <<>>
       /\ pc = "returned" => UNCHANGED vars]_vars

C30_Witness ==
    /\ mode = "project"
    /\ pc = "returned"
    /\ enable_session_persistence
    /\ session.status = FAILED
    /\ ~session.success
    /\ session.iterations = <<>>
    /\ gen_calls = 0
    /\ saved = 0

====
